---- MODULE Spec2Model ----
(***************************************************************************)
(* Model of AdbDeviceManager.compare_screen_with_figma                     *)
(* (src/adbdevicemanager.py): argument validation, token resolution, the   *)
(* capture / fetch steps, the aligner (rescale + vertical offset search +  *)
(* crop), the per-pixel diff pass and the report.                          *)
(*                                                                         *)
(* Conventions                                                             *)
(*  - A Python str is a sequence of one-character strings; None is the     *)
(*    empty set and a present value s is {s}.                              *)
(*  - A Python float is an exact rational <<num, den>>, den > 0;           *)
(*    float("inf") is <<1, 0>>.  Every float the code computes from the    *)
(*    images in range here is a quotient of small integers, so comparisons *)
(*    and the decimal roundings agree with the exact rational ones.        *)
(*  - An image is [width, height, px], px indexed by y * width + x.        *)
(***************************************************************************)
EXTENDS Integers, Sequences, FiniteSets, TLC

VARIABLES
    pc,              \* position inside compare_screen_with_figma
    file_key, node_id, figma_token, scale, grid_cols, grid_rows,  \* arguments
    environ,         \* value of the FIGMA_TOKEN environment variable
    token,           \* resolved token
    io,              \* I/O steps performed so far, in order
    files,           \* artifact files written so far
    error,           \* the exception raised, NoError when none
    raw_body,        \* content of the pulled screenshot file (size only)
    figma_body,      \* content of the downloaded file, NoImage when not an image
    emu_raw_img,     \* decoded raw capture (size only)
    fig_img,         \* decoded reference image
    scaled_h,
    emu_scaled,
    y_offset, best_y, best_mae,
    scores,          \* coarse scores computed so far, scores[o + 1] for offset o
    emu_aligned,
    acc,             \* accumulators of the per-pixel pass
    metrics,         \* mae, rmse (squared) and similarity_pct before rounding
    grid_cells, zone_report,
    report

VARIABLES
    response         \* what the last HTTP request met: [kind, code]

figmaVars == <<pc, file_key, node_id, figma_token, scale, grid_cols, grid_rows,
          environ, token, io, files, error, raw_body, figma_body, emu_raw_img,
          fig_img, scaled_h,
          emu_scaled, y_offset, best_y, best_mae, scores, emu_aligned, acc,
          metrics, grid_cells, zone_report, report>>

\* two invocations of compare_screen_with_figma at the same time, on the same
\* device and host
VARIABLES
    clock,           \* datetime.now(), in whole seconds
    cpc,             \* position of each invocation
    output_dir,      \* output_dir argument of each invocation
    run_id,          \* run_id of each invocation
    device_file,     \* /sdcard/mcp_screenshot.png: NoFile, or the invocation whose
                     \* screencap wrote it
    host_files,      \* the host's files: a set of [path, data], one per path
    written,         \* every write to a host path so far: [path, by]
    raw_read,        \* the capture each invocation decoded
    returned         \* the capture each returned report was computed from

concVars == <<clock, cpc, output_dir, run_id, device_file, host_files, written,
              raw_read, returned>>

\* the constructor
VARIABLES
    adb_installed,       \* what check_adb_installed() returns
    available_devices,   \* what get_available_devices() returns
    device_name, exit_on_error,   \* arguments of __init__
    init_pc,             \* "new", "constructed", "raised" or "exited"
    device_serial,       \* self.device_serial, None before it is assigned
    init_error,          \* the RuntimeError raised by __init__
    exit_codes           \* the arguments of the calls of sys.exit so far

initVars == <<adb_installed, available_devices, device_name, exit_on_error,
              init_pc, device_serial, init_error, exit_codes>>

\* the managed flutter run process
VARIABLES
    flutter_process,     \* self.flutter_process: None or the pid
    flutter_log_path,    \* self.flutter_log_path
    flutter_log_handle,  \* self._flutter_log_handle: "None" or "open"
    processes,           \* the processes spawned so far, processes[pid]
    call_log,            \* the methods called so far, in order
    result               \* what the last call returned

flutterVars == <<flutter_process, flutter_log_path, flutter_log_handle, processes,
                 call_log, result>>

\* hot_reload_vscode_session / hot_restart_vscode_session
VARIABLES
    apc,                 \* position inside _run_attach_and_trigger_action
    action,              \* "reload" or "restart"
    debug_url, debug_port,   \* the parameters, which the discovery reassigns
    given_url, given_port,   \* the parameters as the caller passed them
    logcat_url,          \* what _discover_vm_service_debug_url would return
    host_url,            \* what _discover_vm_service_debug_url_from_host would return
    logcat_port,         \* what _discover_vm_service_port would return
    discovery,           \* the discovery functions called so far, in order
    command,             \* the endpoint options of the attach command
    attach_process,      \* None, or the flutter attach process spawned
    attach_result,       \* what the call returned or raised
    now,                 \* time.time(), in whole seconds
    deadline,            \* the local deadline
    action_deadline,     \* the local action_deadline
    attach_log,          \* which patterns the tail of the attach log contains
    observed             \* what the last pass of the readiness loop saw

\* the endpoint and the command, which the attach session leaves alone
endpointVars == <<action, debug_url, debug_port, given_url, given_port,
                  logcat_url, host_url, logcat_port, discovery, command>>

\* the clock, the deadlines and the log, which only the attach session touches
sessionVars == <<now, deadline, action_deadline, attach_log, observed>>

attachVars == <<apc, endpointVars, attach_process, attach_result, sessionVars>>

\* the state one invocation of compare_screen_with_figma never touches
otherVars == <<concVars, initVars, flutterVars, attachVars>>

\* the state the concurrent invocations, the constructor and the flutter run
\* methods never touch
notConcVars == <<figmaVars, response, initVars, flutterVars, attachVars>>
notInitVars == <<figmaVars, response, concVars, processes, call_log, result, attachVars>>
notFlutterVars == <<figmaVars, response, concVars, initVars, attachVars>>
notAttachVars == <<figmaVars, response, concVars, initVars, flutterVars>>

vars == <<figmaVars, response, otherVars>>

(***************************************************************************)
(* Bounds                                                                  *)
(***************************************************************************)
MaxFigPixels == 3        \* reference images of the pipeline: width * height
MaxScaledPixels == 4     \* rescaled captures of the pipeline: width * height
MaxRawW == 2             \* raw capture width
MaxRawH == 4             \* raw capture height
MaxPipelineGrid == 1     \* grid_cols, grid_rows of the pipeline
MaxDiffPixels == 4       \* images of the diff pass studied on its own
MaxTallH == 8            \* one-pixel-wide images of the diff pass: height
MaxGridCols == 7
MaxGridRows == 2

None == {}
Some(s) == {s}

\* Python strings used as file_key / node_id
KeyValues == { <<>>, <<" ">>, <<"\t", " ">>, <<"k">> }
\* figma_token argument and FIGMA_TOKEN environment variable
TokenValues == { None, Some(<<>>), Some(<<" ">>), Some(<<"t">>) }
ScaleValues == { -1, 0, 1 }
InvalidGrid == { -1, 0 }

\* pixel colours; the first two are those of the repository's test
ColourA == <<40, 75, 140>>
ColourB == <<35, 70, 135>>
ColourC == <<66, 101, 166>>
ColourD == <<91, 126, 191>>
PipelinePalette == { ColourA, ColourB }
DiffPalette == { ColourA, ColourB, ColourC, ColourD }

NoImage == [width |-> 0, height |-> 0, px |-> <<>>]

ImagesOf(w, h, palette) ==
    [width : {w}, height : {h}, px : [0 .. (w * h - 1) -> palette]]

SolidImage(w, h, c) ==
    [width |-> w, height |-> h, px |-> [i \in 0 .. (w * h - 1) |-> c]]

Pixel(img, x, y) == img.px[y * img.width + x]

(***************************************************************************)
(* Rationals                                                               *)
(***************************************************************************)
Infinity == <<1, 0>>
Rat(n, d) == <<n, d>>
RatLess(a, b) == a[1] * b[2] < b[1] * a[2]
RatEq(a, b) == a[2] # 0 /\ b[2] # 0 /\ a[1] * b[2] = b[1] * a[2]
RatLeq(a, b) == RatLess(a, b) \/ RatEq(a, b)

Abs(n) == IF n < 0 THEN -n ELSE n
Min(a, b) == IF a < b THEN a ELSE b

\* Python round(): nearest integer to n / d (n >= 0, d > 0), ties to even.
RoundHalfUp(n, d) ==
    LET q == n \div d
        r == n % d
    IN  IF 2 * r < d THEN q ELSE q + 1

RoundHalfEven(n, d) ==
    LET q == n \div d
        r == n % d
    IN  IF 2 * r < d THEN q
        ELSE IF 2 * r > d THEN q + 1
        ELSE IF q % 2 = 0 THEN q ELSE q + 1

\* n / d shifted left by k decimal digits, as quotient and remainder,
\* computed digit by digit so that no intermediate exceeds 10 * d.
RECURSIVE ShiftDigits(_, _, _, _)
ShiftDigits(q, r, d, k) ==
    IF k = 0 THEN <<q, r>>
    ELSE ShiftDigits(q * 10 + ((r * 10) \div d), (r * 10) % d, d, k - 1)

Pow10(k) == IF k = 3 THEN 1000 ELSE 10000

\* Python round(x, k) for x = n / d >= 0: a rational with denominator 10^k.
RoundDigits(x, k) ==
    IF x[2] = 0 THEN Infinity
    ELSE LET qr == ShiftDigits(x[1] \div x[2], x[1] % x[2], x[2], k)
             q  == qr[1]
             r  == qr[2]
         IN  Rat(IF 2 * r < x[2] THEN q
                 ELSE IF 2 * r > x[2] THEN q + 1
                 ELSE IF q % 2 = 0 THEN q ELSE q + 1,
                 Pow10(k))

(***************************************************************************)
(* Strings                                                                 *)
(***************************************************************************)
Whitespace == { " ", "\t" }

RECURSIVE LStrip(_)
LStrip(s) ==
    IF s # <<>> /\ Head(s) \in Whitespace THEN LStrip(Tail(s)) ELSE s

RECURSIVE RStrip(_)
RStrip(s) ==
    IF s # <<>> /\ s[Len(s)] \in Whitespace
    THEN RStrip(SubSeq(s, 1, Len(s) - 1)) ELSE s

\* str.strip()
Strip(s) == RStrip(LStrip(s))

\* truthiness of an optional str
Truthy(o) == o # None /\ o # Some(<<>>)
Value(o) == CHOOSE s \in o : TRUE

(***************************************************************************)
(* compare_screen_with_figma: validation and token                         *)
(***************************************************************************)
\* an exception: its message text, with the numbers formatted into it
Msg(text) == [text |-> text, numbers |-> <<>>]
NoError == Msg("")

MsgFileKey == Msg("file_key is required.")
MsgNodeId == Msg("node_id is required.")
MsgScale == Msg("scale must be > 0.")
MsgGrid == Msg("grid_cols and grid_rows must be > 0.")
MsgToken == Msg("Figma token is required. Pass figma_token or set FIGMA_TOKEN env var.")

\* `not s.strip()`
IsBlankNoStrip(s) == s = <<>>
IsBlank(s) == Strip(s) = <<>>

ValidationError ==
    IF IsBlank(file_key) THEN MsgFileKey
    ELSE IF IsBlank(node_id) THEN MsgNodeId
    ELSE IF scale <= 0 THEN MsgScale
    ELSE IF grid_cols <= 0 \/ grid_rows <= 0 THEN MsgGrid
    ELSE NoError

\* (figma_token or os.getenv("FIGMA_TOKEN") or "").strip()
ResolvedTokenNoStrip(arg, env) ==
    IF Truthy(arg) THEN Value(arg)
    ELSE IF Truthy(env) THEN Value(env)
    ELSE <<>>
ResolvedToken(arg, env) ==
    Strip(IF Truthy(arg) THEN Value(arg)
          ELSE IF Truthy(env) THEN Value(env)
          ELSE <<>>)

(***************************************************************************)
(* Aligner                                                                 *)
(***************************************************************************)
\* int(round(emu_raw_img.height * target_w / emu_raw_img.width))
ScaledHeightHalfUp(raw_h, target_w, raw_w) == RoundHalfUp(raw_h * target_w, raw_w)
ScaledHeight(raw_h, target_w, raw_w) == RoundHalfEven(raw_h * target_w, raw_w)

\* `if scaled_h < target_h: raise`
TooShortOffByOne(sh, target_h) == sh + 1 < target_h
TooShort(sh, target_h) == sh < target_h

MsgDimension(sh, target_h) ==
    [text |-> "Scaled emulator image is shorter than Figma image ({scaled_h} < {target_h}).",
     numbers |-> <<sh, target_h>>]

RECURSIVE SumOver(_, _)
SumOver(f, S) ==
    IF S = {} THEN 0
    ELSE LET e == CHOOSE e \in S : TRUE IN f[e] + SumOver(f, S \ {e})

\* range(0, n, step)
RangeEveryIndex(n, step) == 0 .. (n - 1)
Range(n, step) == { i \in 0 .. (n - 1) : i % step = 0 }

ChannelDelta(p, q, c) == Abs(p[c] - q[c])

\* _coarse_mae(fig_img, emu_scaled, y_offset, step)
CoarseMae(fig, emu, yoff, step) ==
    LET samples == Range(fig.width, step) \X Range(fig.height, step)
        total == SumOver([s \in samples |->
                     LET p == Pixel(fig, s[1], s[2])
                         q == Pixel(emu, s[1], s[2] + yoff)
                     IN  ChannelDelta(p, q, 1) + ChannelDelta(p, q, 2)
                         + ChannelDelta(p, q, 3)], samples)
        count == 3 * Cardinality(samples)
    IN  IF count = 0 THEN Rat(255, 1) ELSE Rat(total, count)

\* `if score < best_mae`
IsBetterOrEqual(score, best) == RatLeq(score, best)
IsBetter(score, best) == RatLess(score, best)

\* emu_scaled.crop((0, best_y, target_w, best_y + target_h)); rows outside the
\* source are filled with black, as PIL does.
Crop(img, y0, w, h) ==
    [width |-> w, height |-> h,
     px |-> [i \in 0 .. (w * h - 1) |->
               IF y0 + (i \div w) < img.height
               THEN Pixel(img, i % w, y0 + (i \div w))
               ELSE <<0, 0, 0>>]]

(***************************************************************************)
(* Diff engine                                                             *)
(***************************************************************************)
\* the zones list; y0 and y1 in hundredths of the image height
ZonesWithGap ==
    << [name |-> "header",        y0 |-> 0,  y1 |-> 24],
       [name |-> "cards",         y0 |-> 24, y1 |-> 47],
       [name |-> "gap_analysis",  y0 |-> 57, y1 |-> 72],
       [name |-> "strategy_band", y0 |-> 72, y1 |-> 87],
       [name |-> "bottom_nav",    y0 |-> 87, y1 |-> 100] >>
Zones ==
    << [name |-> "header",        y0 |-> 0,  y1 |-> 24],
       [name |-> "cards",         y0 |-> 24, y1 |-> 47],
       [name |-> "gap_analysis",  y0 |-> 47, y1 |-> 72],
       [name |-> "strategy_band", y0 |-> 72, y1 |-> 87],
       [name |-> "bottom_nav",    y0 |-> 87, y1 |-> 100] >>

\* zone["y0"] <= y / target_h < zone["y1"]: y / target_h and the literals are
\* correctly rounded doubles of the same rationals, so the test is the exact one.
InZone(z, y, target_h) == z.y0 * target_h <= 100 * y /\ 100 * y < z.y1 * target_h

\* `for zone in zones: if ...: break` - index of the first zone holding row y,
\* 0 when no zone does
FirstZone(y, target_h) ==
    LET hits == { k \in 1 .. Len(Zones) : InZone(Zones[k], y, target_h) }
    IN  IF hits = {} THEN 0 ELSE CHOOSE k \in hits : \A j \in hits : k <= j

\* dr, dg, db
PixelDeltasMixed(p, q) == << Abs(p[1] - q[2]), Abs(p[2] - q[1]), Abs(p[3] - q[3]) >>
PixelDeltas(p, q) == << Abs(p[1] - q[1]), Abs(p[2] - q[2]), Abs(p[3] - q[3]) >>

\* cx, cy, idx
CellIndexMixed(x, y, w, h, cols, rows) ==
    (Min(rows - 1, (y * rows) \div h) * cols) + Min(cols - 1, (x * cols) \div h)
CellIndex(x, y, w, h, cols, rows) ==
    (Min(rows - 1, (y * rows) \div h) * cols) + Min(cols - 1, (x * cols) \div w)

\* heat_val = min(255, int(round(d_avg * 4)))
HeatVal(s) == Min(255, RoundHalfEven(4 * s, 3))

InitAcc(w, h, cols, rows) ==
    [ sum_abs |-> 0, sum_sq |-> 0,
      diff_gt_10 |-> 0, diff_gt_25 |-> 0, diff_gt_50 |-> 0,
      cell_sums |-> [k \in 1 .. (cols * rows) |-> 0],
      cell_pixels |-> [k \in 1 .. (cols * rows) |-> 0],
      zone_sums |-> [k \in 1 .. Len(Zones) |-> 0],
      zone_counts |-> [k \in 1 .. Len(Zones) |-> 0],
      heat |-> [i \in 0 .. (w * h - 1) |-> <<0, 0, 0>>] ]

\* `d_avg > threshold`, with d_avg = s / 3.0
ExceedsAsSum(s, threshold) == s > threshold
Exceeds(s, threshold) == s > 3 * threshold

\* body of the loop for pixel (x, y).  d_avg = s / 3.0 with s = dr + dg + db;
\* the cell and zone sums of d_avg are kept as sums of s, in thirds.
DiffPixel(a, fig, emu, x, y, cols, rows) ==
    LET d   == PixelDeltas(Pixel(fig, x, y), Pixel(emu, x, y))
        s   == d[1] + d[2] + d[3]
        idx == CellIndex(x, y, fig.width, fig.height, cols, rows) + 1
        z   == FirstZone(y, fig.height)
    IN  [ sum_abs |-> a.sum_abs + s,
          sum_sq |-> a.sum_sq + d[1] * d[1] + d[2] * d[2] + d[3] * d[3],
          diff_gt_10 |-> a.diff_gt_10 + (IF Exceeds(s, 10) THEN 1 ELSE 0),
          diff_gt_25 |-> a.diff_gt_25 + (IF Exceeds(s, 25) THEN 1 ELSE 0),
          diff_gt_50 |-> a.diff_gt_50 + (IF Exceeds(s, 50) THEN 1 ELSE 0),
          cell_sums |-> [a.cell_sums EXCEPT ![idx] = @ + s],
          cell_pixels |-> [a.cell_pixels EXCEPT ![idx] = @ + 1],
          zone_sums |-> IF z = 0 THEN a.zone_sums
                        ELSE [a.zone_sums EXCEPT ![z] = @ + s],
          zone_counts |-> IF z = 0 THEN a.zone_counts
                          ELSE [a.zone_counts EXCEPT ![z] = @ + 1],
          heat |-> [a.heat EXCEPT ![y * fig.width + x] = <<HeatVal(s), 0, 0>>] ]

\* `for y in range(target_h): for x in range(target_w):` from pixel number i on
RECURSIVE DiffLoop(_, _, _, _, _, _)
DiffLoop(a, fig, emu, i, cols, rows) ==
    IF i >= fig.width * fig.height THEN a
    ELSE DiffLoop(DiffPixel(a, fig, emu, i % fig.width, i \div fig.width, cols, rows),
                  fig, emu, i + 1, cols, rows)

(***************************************************************************)
(* Report builder                                                          *)
(***************************************************************************)
WorstN == 12

\* mae = sum_abs / channels
MaePerPixel(sum_abs, w, h) == Rat(sum_abs, w * h)
Mae(sum_abs, w, h) == Rat(sum_abs, w * h * 3)

\* max(0.0, 100.0 - ((v / 255.0) * 100.0))
Similarity(v) ==
    LET n == 100 * 255 * v[2] - 100 * v[1]
    IN  Rat(IF n < 0 THEN 0 ELSE n, 255 * v[2])

\* avg = (sum / count) if count else 0.0, the sum being thirds / 3
AverageEmptyWorst(thirds, count) ==
    IF count # 0 THEN Rat(thirds, 3 * count) ELSE Rat(255, 1)
Average(thirds, count) == IF count # 0 THEN Rat(thirds, 3 * count) ELSE Rat(0, 1)

GridCell(a, row, col, cols) ==
    LET idx == row * cols + col + 1
        avg == Average(a.cell_sums[idx], a.cell_pixels[idx])
    IN  [ row |-> row, col |-> col,
          avgDiff |-> RoundDigits(avg, 3),
          similarityPct |-> RoundDigits(Similarity(avg), 3) ]

\* `for row in range(grid_rows): for col in range(grid_cols): ...append`
GridCells(a, cols, rows) ==
    [ k \in 1 .. (cols * rows) |-> GridCell(a, (k - 1) \div cols, (k - 1) % cols, cols) ]

ZoneReport(a) ==
    [ k \in 1 .. Len(Zones) |->
        LET avg == Average(a.zone_sums[k], a.zone_counts[k])
        IN  [ name |-> Zones[k].name,
              avgDiff |-> RoundDigits(avg, 3),
              similarityPct |-> RoundDigits(Similarity(avg), 3) ] ]

InsertAt(s, k, e) == SubSeq(s, 1, k - 1) \o <<e>> \o SubSeq(s, k, Len(s))

\* stable insertion of cell c into a list ordered by avgDiff
InsertAsc(s, c) ==
    LET later == { k \in 1 .. Len(s) : RatLess(c.avgDiff, s[k].avgDiff) }
    IN  IF later = {} THEN Append(s, c)
        ELSE InsertAt(s, CHOOSE k \in later : \A j \in later : k <= j, c)
InsertDesc(s, c) ==
    LET later == { k \in 1 .. Len(s) : RatLess(s[k].avgDiff, c.avgDiff) }
    IN  IF later = {} THEN Append(s, c)
        ELSE InsertAt(s, CHOOSE k \in later : \A j \in later : k <= j, c)

RECURSIVE SortedAscFrom(_, _, _)
SortedAscFrom(cells, k, out) ==
    IF k > Len(cells) THEN out
    ELSE SortedAscFrom(cells, k + 1, InsertAsc(out, cells[k]))

RECURSIVE SortedDescFrom(_, _, _)
SortedDescFrom(cells, k, out) ==
    IF k > Len(cells) THEN out
    ELSE SortedDescFrom(cells, k + 1, InsertDesc(out, cells[k]))

\* sorted(grid_cells, key=lambda cell: cell["avgDiff"], reverse=True)
SortedByAvgDiffAscending(cells) == SortedAscFrom(cells, 1, <<>>)
SortedByAvgDiff(cells) == SortedDescFrom(cells, 1, <<>>)

\* [:12]
Take(s, n) == SubSeq(s, 1, Min(n, Len(s)))

Percent(count, total) == RoundDigits(Rat(count * 100, total), 4)

ArtifactNames ==
    { "emulator_raw", "figma_node", "emulator_scaled", "emulator_aligned", "heatmap" }

BuildReport(a, cells, zones_out) ==
    LET w == fig_img.width
        h == fig_img.height
        mae == Mae(a.sum_abs, w, h)
    IN  [ figma |-> [ fileKey |-> file_key, nodeId |-> node_id, scale |-> scale,
                      width |-> w, height |-> h ],
          alignment |-> [ scaledWidth |-> w, scaledHeight |-> scaled_h,
                          bestYOffset |-> best_y,
                          coarseMaeAtBestOffset |-> RoundDigits(best_mae, 4) ],
          metrics |-> [ mae |-> RoundDigits(mae, 4),
                        rmseSquared |-> Rat(a.sum_sq, w * h * 3),
                        similarityPct |-> RoundDigits(Similarity(mae), 4),
                        pxDiffGt10Pct |-> Percent(a.diff_gt_10, w * h),
                        pxDiffGt25Pct |-> Percent(a.diff_gt_25, w * h),
                        pxDiffGt50Pct |-> Percent(a.diff_gt_50, w * h) ],
          zones |-> zones_out,
          worstGridCells |-> Take(SortedByAvgDiff(cells), WorstN),
          artifacts |-> ArtifactNames ]

(***************************************************************************)
(* compare_screen_with_figma, step by step                                 *)
(***************************************************************************)
NoAcc == [sum_abs |-> 0]
NoMetrics == [mae |-> Rat(0, 1)]
NoReport == [artifacts |-> {}]

Unset ==
    /\ file_key = <<>> /\ node_id = <<>> /\ figma_token = None
    /\ scale = 0 /\ grid_cols = 0 /\ grid_rows = 0

Fresh ==
    /\ token = <<>> /\ io = <<>> /\ files = {} /\ error = NoError
    /\ raw_body = NoImage /\ figma_body = NoImage
    /\ emu_raw_img = NoImage /\ fig_img = NoImage
    /\ scaled_h = 0 /\ emu_scaled = NoImage
    /\ y_offset = 0 /\ best_y = 0 /\ best_mae = Infinity /\ scores = <<>>
    /\ emu_aligned = NoImage /\ acc = NoAcc /\ metrics = NoMetrics
    /\ grid_cells = <<>> /\ zone_report = <<>> /\ report = NoReport

\* an HTTP exchange as urlopen reports it
Resp(kind, code) == [kind |-> kind, code |-> code]
NoResponse == Resp("none", 0)

Invocations == { 1, 2 }
OutputDirs == { "out_a", "out_b" }
NoFile == 0

\* no concurrent invocation has started
ConcIdle ==
    /\ clock = 0
    /\ cpc = [p \in Invocations |-> "idle"]
    /\ output_dir = [p \in Invocations |-> ""]
    /\ run_id = [p \in Invocations |-> 0]
    /\ device_file = NoFile
    /\ host_files = {}
    /\ written = {}
    /\ raw_read = [p \in Invocations |-> NoFile]
    /\ returned = [p \in Invocations |-> NoFile]

\* device serials
Serials == { <<"a">>, <<"b">>, <<"c">> }

\* no managed flutter run process was ever started
FlutterIdle ==
    /\ flutter_process = None
    /\ flutter_log_path = None
    /\ flutter_log_handle = "None"
    /\ processes = <<>>
    /\ call_log = <<>>
    /\ result = ""

\* a manager constructed with no device_name for the single device connected
Constructed ==
    /\ adb_installed = TRUE
    /\ available_devices = << <<"a">> >>
    /\ device_name = None
    /\ exit_on_error = FALSE
    /\ init_pc = "constructed"
    /\ device_serial = Some(<<"a">>)
    /\ init_error = NoError
    /\ exit_codes = <<>>

\* no pass of the readiness loop has polled the process or read the log
NotObserved == [running |-> FALSE, connected |-> FALSE]

\* no attach session was started; nothing to discover
AttachUnset ==
    /\ apc = "idle"
    /\ action = ""
    /\ debug_url = None /\ debug_port = None
    /\ given_url = None /\ given_port = None
    /\ discovery = <<>>
    /\ command = <<>>
    /\ attach_process = None
    /\ attach_result = ""
    /\ now = 0 /\ deadline = 0 /\ action_deadline = 0
    /\ attach_log = {}
    /\ observed = NotObserved

AttachIdle ==
    /\ AttachUnset
    /\ logcat_url = None /\ host_url = None /\ logcat_port = None

\* nothing outside one invocation of compare_screen_with_figma has happened
OtherIdle == ConcIdle /\ Constructed /\ FlutterIdle /\ AttachIdle

Init ==
    /\ pc = "idle"
    /\ environ \in TokenValues
    /\ Unset
    /\ Fresh
    /\ response = NoResponse
    /\ OtherIdle

Raise(msg) == pc' = "error" /\ error' = msg

\* the call itself: the arguments are bound
Call ==
    /\ pc = "idle"
    /\ file_key' \in KeyValues
    /\ node_id' \in KeyValues
    /\ figma_token' \in TokenValues
    /\ scale' \in ScaleValues
    /\ grid_cols' \in InvalidGrid \cup (1 .. MaxPipelineGrid)
    /\ grid_rows' \in InvalidGrid \cup (1 .. MaxPipelineGrid)
    /\ pc' = "validate"
    /\ UNCHANGED <<environ, token, io, files, error, raw_body, figma_body,
                   emu_raw_img, fig_img, scaled_h, emu_scaled, y_offset, best_y,
                   best_mae, scores, emu_aligned, acc, metrics, grid_cells,
                   zone_report, report>>
    /\ UNCHANGED response
    /\ UNCHANGED otherVars

Validate ==
    /\ pc = "validate"
    /\ IF ValidationError # NoError
       THEN Raise(ValidationError)
       ELSE pc' = "token" /\ error' = error
    /\ UNCHANGED <<file_key, node_id, figma_token, scale, grid_cols, grid_rows,
                   environ, token, io, files, raw_body, figma_body,
                   emu_raw_img, fig_img, scaled_h, emu_scaled, y_offset, best_y,
                   best_mae, scores, emu_aligned, acc, metrics, grid_cells,
                   zone_report, report>>
    /\ UNCHANGED response
    /\ UNCHANGED otherVars

\* _resolve_figma_token: os.getenv is reached only when figma_token is falsy
ResolveToken ==
    /\ pc = "token"
    /\ io' = IF Truthy(figma_token) THEN io ELSE Append(io, "getenv")
    /\ IF ResolvedToken(figma_token, environ) = <<>>
       THEN Raise(MsgToken) /\ token' = token
       ELSE /\ token' = ResolvedToken(figma_token, environ)
            /\ pc' = "mkdir" /\ error' = error
    /\ UNCHANGED <<file_key, node_id, figma_token, scale, grid_cols, grid_rows,
                   environ, files, raw_body, figma_body,
                   emu_raw_img, fig_img, scaled_h, emu_scaled, y_offset, best_y,
                   best_mae, scores, emu_aligned, acc, metrics, grid_cells,
                   zone_report, report>>
    /\ UNCHANGED response
    /\ UNCHANGED otherVars

\* out_dir.mkdir(parents=True, exist_ok=True) and the artifact paths
MakeOutDir ==
    /\ pc = "mkdir"
    /\ io' = Append(io, "mkdir")
    /\ pc' = "capture"
    /\ UNCHANGED <<file_key, node_id, figma_token, scale, grid_cols, grid_rows,
                   environ, token, files, error, raw_body, figma_body,
                   emu_raw_img, fig_img, scaled_h, emu_scaled, y_offset, best_y,
                   best_mae, scores, emu_aligned, acc, metrics, grid_cells,
                   zone_report, report>>
    /\ UNCHANGED response
    /\ UNCHANGED otherVars

CaptureOutcomes == { "ok", "screencap_failed", "pull_failed", "rm_failed" }

\* _capture_raw_screenshot: mkdir, screencap on the device, pull, rm
Capture ==
    /\ pc = "capture"
    /\ \E outcome \in CaptureOutcomes, w \in 1 .. MaxRawW, h \in 1 .. MaxRawH :
         /\ io' = io \o
              (IF outcome = "screencap_failed" THEN <<"mkdir", "screencap">>
               ELSE IF outcome = "pull_failed" THEN <<"mkdir", "screencap", "pull">>
               ELSE <<"mkdir", "screencap", "pull", "rm">>)
         /\ IF outcome \in { "ok", "rm_failed" }
            THEN /\ files' = files \cup { "emulator_raw" }
                 /\ raw_body' = [width |-> w, height |-> h, px |-> <<>>]
            ELSE /\ files' = files
                 /\ raw_body' = raw_body
         /\ IF outcome = "ok"
            THEN pc' = "image_url" /\ error' = error
            ELSE Raise(Msg(outcome))
    /\ UNCHANGED <<file_key, node_id, figma_token, scale, grid_cols, grid_rows,
                   environ, token, figma_body,
                   emu_raw_img, fig_img, scaled_h, emu_scaled, y_offset, best_y,
                   best_mae, scores, emu_aligned, acc, metrics, grid_cells,
                   zone_report, report>>
    /\ UNCHANGED response
    /\ UNCHANGED otherVars

\* status codes of an HTTPError: 403 for a token the server rejects, 404 for
\* a file it does not know
HttpErrorCodes == { 403, 404 }

\* what the images endpoint may answer: an image URL for the node, an
\* HTTPError, a URLError, a payload that is not JSON, a payload with "err", a
\* payload with no URL for the node
UrlOutcomes ==
    { Resp("ok", 200), Resp("url_error", 0), Resp("not_json", 200),
      Resp("err", 200), Resp("no_url", 200) }
    \cup { Resp("http_error", c) : c \in HttpErrorCodes }

UrlErrorUniform(outcome) == Msg("Figma API request failed")

UrlError(outcome) ==
    IF outcome.kind = "http_error"
    THEN [ text |-> "Figma API request failed ({exc.code}): {body}",
           numbers |-> << outcome.code >> ]
    ELSE IF outcome.kind = "url_error" THEN Msg("Figma API request failed: {exc}")
    ELSE IF outcome.kind = "not_json" THEN Msg("JSONDecodeError")
    ELSE IF outcome.kind = "err" THEN Msg("Figma did not return an image URL: {err_msg}")
    ELSE Msg("Figma did not return an image URL for the requested node.")

\* _get_figma_node_image_url: one request to the images endpoint
GetImageUrlRetrying ==
    /\ pc = "image_url"
    /\ io' = Append(io, "http_api")
    /\ \E outcome \in UrlOutcomes :
         /\ response' = outcome
         /\ IF outcome.kind = "ok"
            THEN pc' = "download" /\ error' = error
            ELSE IF io[Len(io)] # "http_api"
            THEN pc' = pc /\ error' = error
            ELSE Raise(UrlError(outcome))
    /\ UNCHANGED <<file_key, node_id, figma_token, scale, grid_cols, grid_rows,
                   environ, token, files, raw_body, figma_body,
                   emu_raw_img, fig_img, scaled_h, emu_scaled, y_offset, best_y,
                   best_mae, scores, emu_aligned, acc, metrics, grid_cells,
                   zone_report, report>>
    /\ UNCHANGED otherVars

GetImageUrl ==
    /\ pc = "image_url"
    /\ io' = Append(io, "http_api")
    /\ \E outcome \in UrlOutcomes :
         /\ response' = outcome
         /\ IF outcome.kind = "ok"
            THEN pc' = "download" /\ error' = error
            ELSE Raise(UrlError(outcome))
    /\ UNCHANGED <<file_key, node_id, figma_token, scale, grid_cols, grid_rows,
                   environ, token, files, raw_body, figma_body,
                   emu_raw_img, fig_img, scaled_h, emu_scaled, y_offset, best_y,
                   best_mae, scores, emu_aligned, acc, metrics, grid_cells,
                   zone_report, report>>
    /\ UNCHANGED otherVars

\* the reference images the server may return, within the bounds
FigBodies ==
    UNION { ImagesOf(w, h, PipelinePalette) :
              <<w, h>> \in { d \in (1 .. MaxFigPixels) \X (1 .. MaxFigPixels) :
                   /\ d[1] * d[2] <= MaxFigPixels
                   /\ d[1] * ScaledHeight(raw_body.height, d[1], raw_body.width)
                        <= MaxScaledPixels } }

\* _download_binary_file: urlopen, read, mkdir, write_bytes
Download ==
    /\ pc = "download"
    /\ \/ /\ io' = io \o <<"http_download", "mkdir", "write_figma_node">>
          /\ files' = files \cup { "figma_node" }
          /\ figma_body' \in FigBodies \cup { NoImage }
          /\ response' = Resp("body", 200)
          /\ pc' = "open" /\ error' = error
       \/ /\ io' = Append(io, "http_download")
          /\ response' = Resp("url_error", 0)
          /\ Raise(Msg("URLError"))
          /\ UNCHANGED <<files, figma_body>>
    /\ UNCHANGED <<file_key, node_id, figma_token, scale, grid_cols, grid_rows,
                   environ, token, raw_body,
                   emu_raw_img, fig_img, scaled_h, emu_scaled, y_offset, best_y,
                   best_mae, scores, emu_aligned, acc, metrics, grid_cells,
                   zone_report, report>>
    /\ UNCHANGED otherVars

\* PILImage.open(...).convert("RGB") of both files
OpenImages ==
    /\ pc = "open"
    /\ IF figma_body = NoImage
       THEN Raise(Msg("UnidentifiedImageError")) /\ UNCHANGED <<fig_img, emu_raw_img>>
       ELSE /\ fig_img' = figma_body
            /\ emu_raw_img' = raw_body
            /\ pc' = "dimension" /\ error' = error
    /\ UNCHANGED <<file_key, node_id, figma_token, scale, grid_cols, grid_rows,
                   environ, token, io, files, raw_body, figma_body,
                   scaled_h, emu_scaled, y_offset, best_y,
                   best_mae, scores, emu_aligned, acc, metrics, grid_cells,
                   zone_report, report>>
    /\ UNCHANGED response
    /\ UNCHANGED otherVars

\* scaled_h and the dimension check
DimensionCheckAfterSave ==
    /\ pc = "dimension"
    /\ scaled_h' = ScaledHeight(emu_raw_img.height, fig_img.width, emu_raw_img.width)
    /\ IF TooShort(scaled_h', fig_img.height)
       THEN /\ Raise(MsgDimension(scaled_h', fig_img.height))
            /\ io' = Append(io, "write_emulator_scaled")
            /\ files' = files \cup { "emulator_scaled" }
       ELSE pc' = "resize" /\ error' = error /\ UNCHANGED <<io, files>>
    /\ UNCHANGED <<file_key, node_id, figma_token, scale, grid_cols, grid_rows,
                   environ, token, raw_body, figma_body,
                   emu_raw_img, fig_img, emu_scaled, y_offset, best_y,
                   best_mae, scores, emu_aligned, acc, metrics, grid_cells,
                   zone_report, report>>
    /\ UNCHANGED response
    /\ UNCHANGED otherVars

DimensionCheck ==
    /\ pc = "dimension"
    /\ scaled_h' = ScaledHeight(emu_raw_img.height, fig_img.width, emu_raw_img.width)
    /\ IF TooShort(scaled_h', fig_img.height)
       THEN Raise(MsgDimension(scaled_h', fig_img.height))
       ELSE pc' = "resize" /\ error' = error
    /\ UNCHANGED <<file_key, node_id, figma_token, scale, grid_cols, grid_rows,
                   environ, token, io, files, raw_body, figma_body,
                   emu_raw_img, fig_img, emu_scaled, y_offset, best_y,
                   best_mae, scores, emu_aligned, acc, metrics, grid_cells,
                   zone_report, report>>
    /\ UNCHANGED response
    /\ UNCHANGED otherVars

\* emu_raw_img.resize((target_w, scaled_h), LANCZOS), save, and the search's
\* initial best; the resampled pixels are the library's
Resize ==
    /\ pc = "resize"
    /\ emu_scaled' \in ImagesOf(fig_img.width, scaled_h, PipelinePalette)
    /\ io' = Append(io, "write_emulator_scaled")
    /\ files' = files \cup { "emulator_scaled" }
    /\ best_y' = 0
    /\ best_mae' = Infinity
    /\ y_offset' = 0
    /\ pc' = "search"
    /\ UNCHANGED <<file_key, node_id, figma_token, scale, grid_cols, grid_rows,
                   environ, token, error, raw_body, figma_body,
                   emu_raw_img, fig_img, scaled_h,
                   scores, emu_aligned, acc, metrics, grid_cells,
                   zone_report, report>>
    /\ UNCHANGED response
    /\ UNCHANGED otherVars

\* one iteration of `for y_offset in range(max_offset + 1)`
SearchStep ==
    /\ pc = "search"
    /\ y_offset <= scaled_h - fig_img.height
    /\ LET score == CoarseMae(fig_img, emu_scaled, y_offset, 2)
       IN  /\ scores' = Append(scores, score)
           /\ IF IsBetter(score, best_mae)
              THEN best_mae' = score /\ best_y' = y_offset
              ELSE UNCHANGED <<best_mae, best_y>>
    /\ y_offset' = y_offset + 1
    /\ UNCHANGED <<pc, file_key, node_id, figma_token, scale, grid_cols, grid_rows,
                   environ, token, io, files, error, raw_body, figma_body,
                   emu_raw_img, fig_img, scaled_h, emu_scaled,
                   emu_aligned, acc, metrics, grid_cells,
                   zone_report, report>>
    /\ UNCHANGED response
    /\ UNCHANGED otherVars

CropAlignedEarly ==
    /\ pc = "search"
    /\ emu_aligned' = Crop(emu_scaled, best_y, fig_img.width, fig_img.height)
    /\ io' = Append(io, "write_emulator_aligned")
    /\ files' = files \cup { "emulator_aligned" }
    /\ pc' = "diff"
    /\ UNCHANGED <<file_key, node_id, figma_token, scale, grid_cols, grid_rows,
                   environ, token, error, raw_body, figma_body,
                   emu_raw_img, fig_img, scaled_h, emu_scaled, y_offset, best_y,
                   best_mae, scores, acc, metrics, grid_cells,
                   zone_report, report>>
    /\ UNCHANGED response
    /\ UNCHANGED otherVars

\* the loop is over: crop at the best offset and save
CropAligned ==
    /\ pc = "search"
    /\ y_offset > scaled_h - fig_img.height
    /\ emu_aligned' = Crop(emu_scaled, best_y, fig_img.width, fig_img.height)
    /\ io' = Append(io, "write_emulator_aligned")
    /\ files' = files \cup { "emulator_aligned" }
    /\ pc' = "diff"
    /\ UNCHANGED <<file_key, node_id, figma_token, scale, grid_cols, grid_rows,
                   environ, token, error, raw_body, figma_body,
                   emu_raw_img, fig_img, scaled_h, emu_scaled, y_offset, best_y,
                   best_mae, scores, acc, metrics, grid_cells,
                   zone_report, report>>
    /\ UNCHANGED response
    /\ UNCHANGED otherVars

DiffPassNoSave ==
    /\ pc = "diff"
    /\ acc' = DiffLoop(InitAcc(fig_img.width, fig_img.height, grid_cols, grid_rows),
                       fig_img, emu_aligned, 0, grid_cols, grid_rows)
    /\ pc' = "report"
    /\ UNCHANGED <<file_key, node_id, figma_token, scale, grid_cols, grid_rows,
                   environ, token, error, raw_body, figma_body,
                   emu_raw_img, fig_img, scaled_h, emu_scaled, y_offset, best_y,
                   best_mae, scores, emu_aligned, metrics, grid_cells,
                   zone_report, report, io, files>>
    /\ UNCHANGED response
    /\ UNCHANGED otherVars

\* the per-pixel pass and heatmap.save
DiffPass ==
    /\ pc = "diff"
    /\ acc' = DiffLoop(InitAcc(fig_img.width, fig_img.height, grid_cols, grid_rows),
                       fig_img, emu_aligned, 0, grid_cols, grid_rows)
    /\ io' = Append(io, "write_heatmap")
    /\ files' = files \cup { "heatmap" }
    /\ pc' = "report"
    /\ UNCHANGED <<file_key, node_id, figma_token, scale, grid_cols, grid_rows,
                   environ, token, error, raw_body, figma_body,
                   emu_raw_img, fig_img, scaled_h, emu_scaled, y_offset, best_y,
                   best_mae, scores, emu_aligned, metrics, grid_cells,
                   zone_report, report>>
    /\ UNCHANGED response
    /\ UNCHANGED otherVars

\* the metrics, the cell and zone lists, and the returned dictionary
Report ==
    /\ pc = "report"
    /\ metrics' = [ mae |-> Mae(acc.sum_abs, fig_img.width, fig_img.height),
                    rmseSquared |-> Rat(acc.sum_sq, fig_img.width * fig_img.height * 3),
                    similarity_pct |->
                        Similarity(Mae(acc.sum_abs, fig_img.width, fig_img.height)) ]
    /\ grid_cells' = GridCells(acc, grid_cols, grid_rows)
    /\ zone_report' = ZoneReport(acc)
    /\ report' = BuildReport(acc, grid_cells', zone_report')
    /\ pc' = "done"
    /\ UNCHANGED <<file_key, node_id, figma_token, scale, grid_cols, grid_rows,
                   environ, token, io, files, error, raw_body, figma_body,
                   emu_raw_img, fig_img, scaled_h, emu_scaled, y_offset, best_y,
                   best_mae, scores, emu_aligned, acc>>
    /\ UNCHANGED response
    /\ UNCHANGED otherVars

Next ==
    \/ Call
    \/ Validate
    \/ ResolveToken
    \/ MakeOutDir
    \/ Capture
    \/ GetImageUrl
    \/ Download
    \/ OpenImages
    \/ DimensionCheck
    \/ Resize
    \/ SearchStep
    \/ CropAligned
    \/ DiffPass
    \/ Report

Spec == Init /\ [][Next]_vars

(***************************************************************************)
(* The diff pass and the report on their own: the states in which the      *)
(* aligner has just finished, for a solid reference image and every        *)
(* aligned capture of the same size over DiffPalette.  The capture had the *)
(* reference's size, so the only offset was 0.                             *)
(* InitDiff is the state CropAligned leaves for these images.              *)
(***************************************************************************)
RefColours == { ColourA }

DiffSizes ==
    { d \in (1 .. MaxDiffPixels) \X (1 .. MaxDiffPixels) : d[1] * d[2] <= MaxDiffPixels }

\* taller images, one pixel wide and over two colours, so that every zone
\* receives rows
TallHeights == (MaxDiffPixels + 1) .. MaxTallH

InitDiff ==
    /\ pc = "diff"
    /\ file_key = <<"k">> /\ node_id = <<"k">> /\ figma_token = Some(<<"t">>)
    /\ scale = 1
    /\ grid_cols \in 1 .. MaxGridCols
    /\ grid_rows \in 1 .. MaxGridRows
    /\ environ = None
    /\ token = <<"t">>
    /\ io = << "mkdir", "mkdir", "screencap", "pull", "rm", "http_api",
               "http_download", "mkdir", "write_figma_node",
               "write_emulator_scaled", "write_emulator_aligned" >>
    /\ files = { "emulator_raw", "figma_node", "emulator_scaled", "emulator_aligned" }
    /\ error = NoError
    /\ \E c \in RefColours :
         \/ \E d \in DiffSizes :
              /\ fig_img = SolidImage(d[1], d[2], c)
              /\ raw_body = [width |-> d[1], height |-> d[2], px |-> <<>>]
              /\ emu_aligned \in ImagesOf(d[1], d[2], DiffPalette)
         \/ \E h \in TallHeights :
              /\ fig_img = SolidImage(1, h, c)
              /\ raw_body = [width |-> 1, height |-> h, px |-> <<>>]
              /\ emu_aligned \in ImagesOf(1, h, PipelinePalette)
    /\ figma_body = fig_img
    /\ emu_raw_img = raw_body
    /\ scaled_h = fig_img.height
    /\ emu_scaled = emu_aligned
    /\ y_offset = 1 /\ best_y = 0
    /\ best_mae = CoarseMae(fig_img, emu_scaled, 0, 2)
    /\ scores = << best_mae >>
    /\ acc = NoAcc /\ metrics = NoMetrics
    /\ grid_cells = <<>> /\ zone_report = <<>> /\ report = NoReport
    /\ response = Resp("body", 200)
    /\ OtherIdle

NextDiff ==
    \/ DiffPass
    \/ Report

SpecDiff == InitDiff /\ [][NextDiff]_vars

(***************************************************************************)
(* Two invocations of compare_screen_with_figma running at the same time   *)
(* (two threads, or two server processes) against the same device and the  *)
(* same host.  Each is cut at its reads and writes of what they share: the *)
(* wall clock, the device file and the host's files.  Arguments are valid, *)
(* and the device and the network do not fail.                             *)
(***************************************************************************)
MaxClock == 1

\* out_dir / f"{run_id}_{name}.png"
PathOf(p, name) == << output_dir[p], run_id[p], name >>

\* write_bytes, save and pull replace the file at the path
WriteFiles(p, names, data) ==
    /\ host_files' = { f \in host_files : f.path \notin { PathOf(p, n) : n \in names } }
                       \cup { [path |-> PathOf(p, n), data |-> data] : n \in names }
    /\ written' = written \cup { [path |-> PathOf(p, n), by |-> p] : n \in names }

ReadFile(path) == (CHOOSE f \in host_files : f.path = path).data

Goto(p, label) == cpc' = [cpc EXCEPT ![p] = label]

\* the arguments are bound and checked, the directory is made, the run_id is
\* read off the clock
CStart(p) ==
    /\ cpc[p] = "idle"
    /\ \E d \in OutputDirs : output_dir' = [output_dir EXCEPT ![p] = d]
    /\ run_id' = [run_id EXCEPT ![p] = clock]
    /\ Goto(p, "screencap")
    /\ UNCHANGED <<clock, device_file, host_files, written, raw_read, returned>>
    /\ UNCHANGED notConcVars

\* self.device.shell(f"screencap -p {device_path}")
CScreencap(p) ==
    /\ cpc[p] = "screencap"
    /\ device_file' = p
    /\ Goto(p, "pull")
    /\ UNCHANGED <<clock, output_dir, run_id, host_files, written, raw_read, returned>>
    /\ UNCHANGED notConcVars

\* self.device.pull(device_path, str(host_path))
CPull(p) ==
    /\ cpc[p] = "pull"
    /\ IF device_file = NoFile
       THEN Goto(p, "error") /\ UNCHANGED <<host_files, written>>
       ELSE WriteFiles(p, { "emulator_raw" }, device_file) /\ Goto(p, "rm")
    /\ UNCHANGED <<clock, output_dir, run_id, device_file, raw_read, returned>>
    /\ UNCHANGED notConcVars

\* self.device.shell(f"rm {device_path}")
CRm(p) ==
    /\ cpc[p] = "rm"
    /\ device_file' = NoFile
    /\ Goto(p, "fetch")
    /\ UNCHANGED <<clock, output_dir, run_id, host_files, written, raw_read, returned>>
    /\ UNCHANGED notConcVars

\* the image URL and the download into figma_node_path
CFetch(p) ==
    /\ cpc[p] = "fetch"
    /\ WriteFiles(p, { "figma_node" }, p)
    /\ Goto(p, "open")
    /\ UNCHANGED <<clock, output_dir, run_id, device_file, raw_read, returned>>
    /\ UNCHANGED notConcVars

\* PILImage.open(emulator_raw)
COpen(p) ==
    /\ cpc[p] = "open"
    /\ raw_read' = [raw_read EXCEPT ![p] = ReadFile(PathOf(p, "emulator_raw"))]
    /\ Goto(p, "diff")
    /\ UNCHANGED <<clock, output_dir, run_id, device_file, host_files, written, returned>>
    /\ UNCHANGED notConcVars

\* the aligner, the diff pass, their three files and the report
CFinish(p) ==
    /\ cpc[p] = "diff"
    /\ WriteFiles(p, { "emulator_scaled", "emulator_aligned", "heatmap" }, raw_read[p])
    /\ returned' = [returned EXCEPT ![p] = raw_read[p]]
    /\ Goto(p, "done")
    /\ UNCHANGED <<clock, output_dir, run_id, device_file, raw_read>>
    /\ UNCHANGED notConcVars

\* a second passes
Tick ==
    /\ clock < MaxClock
    /\ clock' = clock + 1
    /\ UNCHANGED <<cpc, output_dir, run_id, device_file, host_files, written,
                   raw_read, returned>>
    /\ UNCHANGED notConcVars

InitConcurrent ==
    /\ pc = "idle"
    /\ environ = None
    /\ Unset
    /\ Fresh
    /\ response = NoResponse
    /\ OtherIdle

NextConcurrent ==
    \/ \E p \in Invocations : CStart(p)
    \/ \E p \in Invocations : CScreencap(p)
    \/ \E p \in Invocations : CPull(p)
    \/ \E p \in Invocations : CRm(p)
    \/ \E p \in Invocations : CFetch(p)
    \/ \E p \in Invocations : COpen(p)
    \/ \E p \in Invocations : CFinish(p)
    \/ Tick

SpecConcurrent == InitConcurrent /\ [][NextConcurrent]_vars

(***************************************************************************)
(* AdbDeviceManager.__init__                                               *)
(***************************************************************************)
MaxDevices == 2

\* the lists get_available_devices() may return: distinct serials
DeviceLists ==
    UNION { { l \in [1 .. n -> Serials] : \A i, j \in 1 .. n : l[i] = l[j] => i = j } :
            n \in 0 .. MaxDevices }

DeviceNames == { None, Some(<<>>) } \cup { Some(n) : n \in Serials }

MsgAdb ==
    Msg("adb is not installed or not in PATH. Please install adb and ensure it is in your PATH.")
MsgNoDevices == Msg("No devices connected. Please connect a device and try again.")
MsgNotFound == Msg("Device {device_name} not found. Available devices: {available_devices}")
MsgMultiple ==
    Msg("Multiple devices connected: {available_devices}. Please specify a device in config.yaml or connect only one device.")

InitErrorFirstDevice(installed, devices, name) ==
    IF ~installed THEN MsgAdb
    ELSE IF devices = <<>> THEN MsgNoDevices
    ELSE IF Truthy(name) /\ ~\E i \in 1 .. Len(devices) : devices[i] = Value(name)
    THEN MsgNotFound
    ELSE NoError

\* the error __init__ reports, NoError when it selects a device
InitError(installed, devices, name) ==
    IF ~installed THEN MsgAdb
    ELSE IF devices = <<>> THEN MsgNoDevices
    ELSE IF Truthy(name)
    THEN IF \E i \in 1 .. Len(devices) : devices[i] = Value(name)
         THEN NoError ELSE MsgNotFound
    ELSE IF Len(devices) = 1 THEN NoError
    ELSE MsgMultiple

\* selected_device_name
SelectedDevice(devices, name) == IF Truthy(name) THEN Value(name) ELSE devices[1]

\* `if exit_on_error: print(...); sys.exit(1)` / `else: raise RuntimeError(...)`;
\* sys.exit raises SystemExit, which ends the construction
InitFailureRaising(msg) ==
    /\ init_pc' = "raised"
    /\ init_error' = msg
    /\ exit_codes' = exit_codes

InitFailure(msg) ==
    IF exit_on_error'
    THEN /\ init_pc' = "exited"
         /\ exit_codes' = Append(exit_codes, 1)
         /\ init_error' = init_error
    ELSE /\ init_pc' = "raised"
         /\ init_error' = msg
         /\ exit_codes' = exit_codes

\* AdbDeviceManager(device_name, exit_on_error)
Construct ==
    /\ init_pc = "new"
    /\ device_name' \in DeviceNames
    /\ exit_on_error' \in BOOLEAN
    /\ LET e == InitError(adb_installed, available_devices, device_name')
       IN  IF e # NoError
           THEN /\ InitFailure(e)
                /\ UNCHANGED <<device_serial, flutter_process, flutter_log_path,
                               flutter_log_handle>>
           ELSE /\ device_serial' = Some(SelectedDevice(available_devices, device_name'))
                /\ flutter_process' = None
                /\ flutter_log_path' = None
                /\ flutter_log_handle' = "None"
                /\ init_pc' = "constructed"
                /\ UNCHANGED <<init_error, exit_codes>>
    /\ UNCHANGED <<adb_installed, available_devices>>
    /\ UNCHANGED notInitVars

InitInit ==
    /\ adb_installed \in BOOLEAN
    /\ available_devices \in DeviceLists
    /\ device_name = None
    /\ exit_on_error = FALSE
    /\ init_pc = "new"
    /\ device_serial = None
    /\ init_error = NoError
    /\ exit_codes = <<>>
    /\ FlutterIdle
    /\ ConcIdle
    /\ AttachIdle
    /\ pc = "idle" /\ environ = None /\ Unset /\ Fresh /\ response = NoResponse

NextInit == Construct

SpecInit == InitInit /\ [][NextInit]_vars

(***************************************************************************)
(* The managed flutter run process: start_flutter_run,                     *)
(* hot_reload_flutter_run, hot_restart_flutter_run, and the process ending *)
(* on its own.  A process is [alive, has_stdin, stdin], stdin the writes   *)
(* and flushes it received; its pid is its index in processes.             *)
(***************************************************************************)
MaxCalls == 4

\* subprocess.Popen(command, stdin=subprocess.PIPE, ...)
Popen(alive) ==
    [alive |-> alive, has_stdin |-> TRUE, stdin |-> <<>>, killed |-> FALSE]

Pid == Value(flutter_process)

\* `not self.flutter_process or self.flutter_process.poll() is not None`
NoActiveProcess == flutter_process = None \/ ~processes[Pid].alive

\* stdin.write(text); stdin.flush()
WriteUnflushed(pid, text) ==
    [processes EXCEPT ![pid].stdin = Append(@, text)]

WriteAndFlush(pid, text) ==
    [processes EXCEPT ![pid].stdin = @ \o << text, "flush" >>]

StartOutcomes == { "no_dir", "no_exe", "popen_failed", "exits_early", "runs" }

\* `self.flutter_process and self.flutter_process.poll() is None`
AlreadyActiveNever == FALSE
AlreadyActive == flutter_process # None /\ processes[Pid].alive

StartFlutterRun ==
    /\ init_pc = "constructed"
    /\ Len(call_log) < MaxCalls
    /\ call_log' = Append(call_log, "start_flutter_run")
    /\ IF AlreadyActive
       THEN /\ result' = "Flutter run already active (pid: {pid})."
            /\ UNCHANGED <<flutter_process, flutter_log_path, flutter_log_handle,
                           processes>>
       ELSE \E outcome \in StartOutcomes :
              \* a process that has exited is forgotten first
              IF outcome \in { "no_dir", "no_exe" }
              THEN /\ result' = IF outcome = "no_dir"
                                THEN "RuntimeError: Project directory not found: {project_dir}"
                                ELSE "RuntimeError: Could not find '{flutter_executable}' on PATH."
                   /\ flutter_process' = None
                   /\ flutter_log_handle' =
                        IF flutter_process # None THEN "None" ELSE flutter_log_handle
                   /\ UNCHANGED <<flutter_log_path, processes>>
              ELSE IF outcome = "popen_failed"
              THEN /\ result' = "OSError"
                   /\ flutter_process' = None
                   /\ flutter_log_path' = Some("{project_dir}/.mcp_flutter_run.log")
                   /\ flutter_log_handle' = "open"
                   /\ UNCHANGED processes
              ELSE /\ processes' = Append(processes, Popen(outcome = "runs"))
                   /\ flutter_log_path' = Some("{project_dir}/.mcp_flutter_run.log")
                   /\ IF outcome = "exits_early"
                      THEN /\ flutter_process' = None
                           /\ flutter_log_handle' = "None"
                           /\ result' = "flutter run exited early with code {exit_code}."
                      ELSE /\ flutter_process' = Some(Len(processes) + 1)
                           /\ flutter_log_handle' = "open"
                           /\ result' = "Started flutter run (pid: {pid}) on device {device_serial}."
    /\ UNCHANGED notFlutterVars

\* hot_reload_flutter_run and hot_restart_flutter_run: the same code around a
\* different key
SendKeyToFlutterRunNoFlush(method, key, sent, unavailable) ==
    /\ init_pc = "constructed"
    /\ Len(call_log) < MaxCalls
    /\ call_log' = Append(call_log, method)
    /\ IF NoActiveProcess
       THEN /\ result' = "No active flutter run process. Start one with start_flutter_run first."
            /\ processes' = processes
       ELSE IF ~processes[Pid].has_stdin
       THEN result' = unavailable /\ processes' = processes
       ELSE /\ processes' = WriteUnflushed(Pid, key)
            /\ result' = sent
    /\ UNCHANGED <<flutter_process, flutter_log_path, flutter_log_handle>>
    /\ UNCHANGED notFlutterVars

SendKeyToFlutterRun(method, key, sent, unavailable) ==
    /\ init_pc = "constructed"
    /\ Len(call_log) < MaxCalls
    /\ call_log' = Append(call_log, method)
    /\ IF NoActiveProcess
       THEN /\ result' = "No active flutter run process. Start one with start_flutter_run first."
            /\ processes' = processes
       ELSE IF ~processes[Pid].has_stdin
       THEN result' = unavailable /\ processes' = processes
       ELSE /\ processes' = WriteAndFlush(Pid, key)
            /\ result' = sent
    /\ UNCHANGED <<flutter_process, flutter_log_path, flutter_log_handle>>
    /\ UNCHANGED notFlutterVars

HotReloadFlutterRun ==
    SendKeyToFlutterRun("hot_reload_flutter_run", "r\n",
                        "Hot reload command sent to flutter run.",
                        "Flutter process stdin is unavailable; cannot send hot reload command.")

HotRestartFlutterRun ==
    SendKeyToFlutterRun("hot_restart_flutter_run", "R\n",
                        "Hot restart command sent to flutter run.",
                        "Flutter process stdin is unavailable; cannot send hot restart command.")

\* stop_flutter_run: "q", wait(timeout=max(1, graceful_wait_seconds)), kill on
\* TimeoutExpired, _cleanup_flutter_process_state
StopFlutterRunKillOnly ==
    /\ init_pc = "constructed"
    /\ Len(call_log) < MaxCalls
    /\ call_log' = Append(call_log, "stop_flutter_run")
    /\ IF NoActiveProcess
       THEN /\ result' = "No active flutter run process."
            /\ processes' = processes
       ELSE /\ processes' = [processes EXCEPT ![Pid].alive = FALSE,
                                                ![Pid].killed = TRUE]
            /\ result' = "Force-killed flutter run process (pid: {pid})."
    /\ flutter_process' = None
    /\ flutter_log_handle' = "None"
    /\ UNCHANGED flutter_log_path
    /\ UNCHANGED notFlutterVars

StopFlutterRun ==
    /\ init_pc = "constructed"
    /\ Len(call_log) < MaxCalls
    /\ call_log' = Append(call_log, "stop_flutter_run")
    /\ IF NoActiveProcess
       THEN /\ result' = "No active flutter run process."
            /\ processes' = processes
       ELSE \E in_time \in BOOLEAN :
              LET asked == IF processes[Pid].has_stdin
                           THEN WriteAndFlush(Pid, "q\n") ELSE processes
              IN  IF in_time
                  THEN /\ processes' = [asked EXCEPT ![Pid].alive = FALSE]
                       /\ result' = "Stopped flutter run gracefully (pid: {pid})."
                  ELSE /\ processes' = [asked EXCEPT ![Pid].alive = FALSE,
                                                     ![Pid].killed = TRUE]
                       /\ result' = "Force-killed flutter run process (pid: {pid})."
    /\ flutter_process' = None
    /\ flutter_log_handle' = "None"
    /\ UNCHANGED flutter_log_path
    /\ UNCHANGED notFlutterVars

\* a process ends on its own
ProcessExits ==
    /\ \E pid \in 1 .. Len(processes) :
         /\ processes[pid].alive
         /\ processes' = [processes EXCEPT ![pid].alive = FALSE]
    /\ UNCHANGED <<flutter_process, flutter_log_path, flutter_log_handle, call_log,
                   result>>
    /\ UNCHANGED notFlutterVars

InitFlutter ==
    /\ Constructed
    /\ FlutterIdle
    /\ ConcIdle
    /\ AttachIdle
    /\ pc = "idle" /\ environ = None /\ Unset /\ Fresh /\ response = NoResponse

NextFlutter ==
    \/ StartFlutterRun
    \/ HotReloadFlutterRun
    \/ HotRestartFlutterRun
    \/ StopFlutterRun
    \/ ProcessExits

SpecFlutter == InitFlutter /\ [][NextFlutter]_vars

(***************************************************************************)
(* hot_reload_vscode_session and hot_restart_vscode_session, that is       *)
(* _run_attach_and_trigger_action: the choice of the VM-service endpoint,  *)
(* the attach command, and the attach session.                             *)
(***************************************************************************)
MaxWait == 2

DebugUrls == { None, Some(<<>>), Some(<<"u">>) }
DebugPorts == { None, Some(-1), Some(0), Some(12) }
LogcatUrls == { None, Some(<<"l">>) }
HostUrls == { None, Some(<<"h">>) }
LogcatPorts == { None, Some(34) }

\* str(n)
RECURSIVE Str(_)
Str(n) ==
    LET digit == << "0", "1", "2", "3", "4", "5", "6", "7", "8", "9" >>[(n % 10) + 1]
    IN  IF n < 0 THEN << "-" >> \o Str(-n)
        ELSE IF n < 10 THEN << digit >>
        ELSE Append(Str(n \div 10), digit)

AttachRaise(msg) == apc' = "raised" /\ attach_result' = msg

\* the call: the arguments are bound; action and project_dir are checked
AttachCall(act) ==
    /\ init_pc = "constructed"
    /\ apc = "idle"
    /\ action' = act
    /\ \E u \in DebugUrls, q \in DebugPorts :
         /\ debug_url' = u /\ given_url' = u
         /\ debug_port' = q /\ given_port' = q
    /\ \E isdir \in BOOLEAN :
         IF isdir
         THEN apc' = "select" /\ attach_result' = attach_result
         ELSE AttachRaise("RuntimeError: Project directory not found: {project_dir}")
    /\ UNCHANGED <<logcat_url, host_url, logcat_port, discovery, command, attach_process>>
    /\ UNCHANGED sessionVars
    /\ UNCHANGED notAttachVars

HotReloadVscodeSession == AttachCall("reload")

HotRestartVscodeSession == AttachCall("restart")

\* `if not debug_url and (debug_port is None or debug_port <= 0):` and its body
SelectEndpointHostFirst ==
    /\ apc = "select"
    /\ IF Truthy(debug_url) \/ (debug_port # None /\ Value(debug_port) > 0)
       THEN /\ apc' = "spawn"
            /\ UNCHANGED <<debug_url, debug_port, discovery, attach_result>>
       ELSE IF host_url # None
       THEN /\ discovery' = << "_discover_vm_service_debug_url_from_host" >>
            /\ debug_url' = host_url
            /\ apc' = "spawn"
            /\ UNCHANGED <<debug_port, attach_result>>
       ELSE IF logcat_url # None
       THEN /\ discovery' = << "_discover_vm_service_debug_url_from_host",
                               "_discover_vm_service_debug_url" >>
            /\ debug_url' = logcat_url
            /\ apc' = "spawn"
            /\ UNCHANGED <<debug_port, attach_result>>
       ELSE /\ discovery' = << "_discover_vm_service_debug_url_from_host",
                               "_discover_vm_service_debug_url",
                               "_discover_vm_service_port" >>
            /\ IF logcat_port # None
               THEN debug_port' = logcat_port /\ apc' = "spawn"
                    /\ attach_result' = attach_result
               ELSE debug_port' = debug_port
                    /\ AttachRaise("RuntimeError: Could not discover Dart VM service endpoint from logcat.")
            /\ UNCHANGED debug_url
    /\ UNCHANGED <<action, given_url, given_port, logcat_url, host_url, logcat_port,
                   command, attach_process>>
    /\ UNCHANGED sessionVars
    /\ UNCHANGED notAttachVars

SelectEndpoint ==
    /\ apc = "select"
    /\ IF Truthy(debug_url) \/ (debug_port # None /\ Value(debug_port) > 0)
       THEN /\ apc' = "spawn"
            /\ UNCHANGED <<debug_url, debug_port, discovery, attach_result>>
       ELSE IF logcat_url # None
       THEN /\ discovery' = << "_discover_vm_service_debug_url" >>
            /\ debug_url' = logcat_url
            /\ apc' = "spawn"
            /\ UNCHANGED <<debug_port, attach_result>>
       ELSE IF host_url # None
       THEN /\ discovery' = << "_discover_vm_service_debug_url",
                               "_discover_vm_service_debug_url_from_host" >>
            /\ debug_url' = host_url
            /\ apc' = "spawn"
            /\ UNCHANGED <<debug_port, attach_result>>
       ELSE /\ discovery' = << "_discover_vm_service_debug_url",
                               "_discover_vm_service_debug_url_from_host",
                               "_discover_vm_service_port" >>
            /\ IF logcat_port # None
               THEN debug_port' = logcat_port /\ apc' = "spawn"
                    /\ attach_result' = attach_result
               ELSE debug_port' = debug_port
                    /\ AttachRaise("RuntimeError: Could not discover Dart VM service endpoint from logcat.")
            /\ UNCHANGED debug_url
    /\ UNCHANGED <<action, given_url, given_port, logcat_url, host_url, logcat_port,
                   command, attach_process>>
    /\ UNCHANGED sessionVars
    /\ UNCHANGED notAttachVars

\* `if debug_url: ... elif debug_port: ...`
EndpointOptions ==
    IF Truthy(debug_url) THEN << << "--debug-url", Value(debug_url) >> >>
    ELSE IF debug_port # None /\ Value(debug_port) # 0
    THEN << << "--debug-port", Str(Value(debug_port)) >> >>
    ELSE <<>>

\* _resolve_flutter_executable, the command, and subprocess.Popen
SpawnAttach ==
    /\ apc = "spawn"
    /\ \E found \in BOOLEAN :
         IF found
         THEN /\ command' = EndpointOptions
              /\ attach_process' = Some(Popen(TRUE))
              /\ apc' = "attached"
              /\ attach_result' = attach_result
         ELSE /\ AttachRaise("RuntimeError: Could not find '{flutter_executable}' on PATH.")
              /\ UNCHANGED <<command, attach_process>>
    /\ UNCHANGED <<action, debug_url, debug_port, given_url, given_port, logcat_url,
                   host_url, logcat_port, discovery>>
    /\ UNCHANGED sessionVars
    /\ UNCHANGED notAttachVars

\* attach_wait_seconds and action_wait_seconds
WaitSeconds == { 0, MaxWait }

\* max(1, seconds)
AtLeastOne(seconds) == IF seconds < 1 THEN 1 ELSE seconds

LogPatterns == { "connected", "action" }

Proc == Value(attach_process)

AttachReturn(msg) == apc' = "returned" /\ attach_result' = msg

\* proc.kill(); proc.wait(timeout=5)
Killed == Some([Proc EXCEPT !.alive = FALSE, !.killed = TRUE])

\* `deadline = time.time() + max(1, attach_wait_seconds)`; `ready = False`
SetDeadline ==
    /\ apc = "attached"
    /\ \E attach_wait_seconds \in WaitSeconds :
         deadline' = now + AtLeastOne(attach_wait_seconds)
    /\ apc' = "ready_loop"
    /\ UNCHANGED <<endpointVars, attach_process, attach_result, now, action_deadline,
                   attach_log, observed>>
    /\ UNCHANGED notAttachVars

\* `while time.time() < deadline:`
ReadyLoopTestForever ==
    /\ apc = "ready_loop"
    /\ apc' = "ready_poll"
    /\ UNCHANGED <<endpointVars, attach_process, attach_result, sessionVars>>
    /\ UNCHANGED notAttachVars

ReadyLoopTest ==
    /\ apc = "ready_loop"
    /\ apc' = IF now < deadline THEN "ready_poll" ELSE "not_ready"
    /\ UNCHANGED <<endpointVars, attach_process, attach_result, sessionVars>>
    /\ UNCHANGED notAttachVars

\* `if proc.poll() is not None:` return the early-exit message
ReadyPoll ==
    /\ apc = "ready_poll"
    /\ observed' = [running |-> Proc.alive, connected |-> FALSE]
    /\ IF Proc.alive
       THEN apc' = "ready_tail" /\ attach_result' = attach_result
       ELSE AttachReturn("flutter attach exited early with code {proc.returncode}.")
    /\ UNCHANGED <<endpointVars, attach_process, now, deadline, action_deadline,
                   attach_log>>
    /\ UNCHANGED notAttachVars

\* `if any(pattern in tail for pattern in connected_patterns):` ready, break;
\* otherwise time.sleep(0.5) and the next pass
ReadyTailAnyLog ==
    /\ apc = "ready_tail"
    /\ apc' = "check_stdin"
    /\ UNCHANGED <<endpointVars, attach_process, attach_result, sessionVars>>
    /\ UNCHANGED notAttachVars

ReadyTail ==
    /\ apc = "ready_tail"
    /\ IF "connected" \in attach_log
       THEN /\ observed' = [observed EXCEPT !.connected = TRUE]
            /\ apc' = "check_stdin"
       ELSE /\ observed' = observed
            /\ apc' = "ready_loop"
    /\ UNCHANGED <<endpointVars, attach_process, attach_result, now, deadline,
                   action_deadline, attach_log>>
    /\ UNCHANGED notAttachVars

\* `if not ready:` kill, wait, return the timeout message
NotReadyNoKill ==
    /\ apc = "not_ready"
    /\ AttachReturn("flutter attach did not become ready before timeout.")
    /\ UNCHANGED <<endpointVars, attach_process, sessionVars>>
    /\ UNCHANGED notAttachVars

NotReady ==
    /\ apc = "not_ready"
    /\ attach_process' = Killed
    /\ AttachReturn("flutter attach did not become ready before timeout.")
    /\ UNCHANGED <<endpointVars, sessionVars>>
    /\ UNCHANGED notAttachVars

\* `if not proc.stdin:` kill, wait, return the message
CheckStdin ==
    /\ apc = "check_stdin"
    /\ IF Proc.has_stdin
       THEN /\ apc' = "write_key"
            /\ UNCHANGED <<attach_process, attach_result>>
       ELSE /\ attach_process' = Killed
            /\ AttachReturn("flutter attach started but stdin is unavailable; cannot trigger action.")
    /\ UNCHANGED <<endpointVars, sessionVars>>
    /\ UNCHANGED notAttachVars

\* proc.stdin.write(text); proc.stdin.flush(): the pipe of a process that has
\* exited is broken, unless a descendant of it still holds the other end
StdinWrite(text, then) ==
    \E broken \in BOOLEAN :
      /\ Proc.alive => ~broken
      /\ IF broken
         THEN /\ AttachRaise("BrokenPipeError")
              /\ attach_process' = attach_process
         ELSE /\ attach_process' = Some([Proc EXCEPT !.stdin = @ \o << text, "flush" >>])
              /\ apc' = then
              /\ attach_result' = attach_result

\* `key = "r" if action == "reload" else "R"`, the write, and
\* `action_deadline = time.time() + max(1, action_wait_seconds)`
WriteKey ==
    /\ apc = "write_key"
    /\ StdinWrite(IF action = "reload" THEN "r\n" ELSE "R\n", "action_loop")
    /\ \E action_wait_seconds \in WaitSeconds :
         action_deadline' = IF apc' = "raised" THEN action_deadline
                            ELSE now + AtLeastOne(action_wait_seconds)
    /\ UNCHANGED <<endpointVars, now, deadline, attach_log, observed>>
    /\ UNCHANGED notAttachVars

\* `while time.time() < action_deadline:`
ActionLoopTest ==
    /\ apc = "action_loop"
    /\ apc' = IF now < action_deadline THEN "action_tail" ELSE "detach"
    /\ UNCHANGED <<endpointVars, attach_process, attach_result, sessionVars>>
    /\ UNCHANGED notAttachVars

\* `if any(pattern in tail for pattern in action_patterns): break`
ActionTail ==
    /\ apc = "action_tail"
    /\ apc' = IF "action" \in attach_log THEN "detach" ELSE "action_poll"
    /\ UNCHANGED <<endpointVars, attach_process, attach_result, sessionVars>>
    /\ UNCHANGED notAttachVars

\* `if proc.poll() is not None: break`; otherwise time.sleep(0.25) and the next pass
ActionPoll ==
    /\ apc = "action_poll"
    /\ apc' = IF Proc.alive THEN "action_loop" ELSE "detach"
    /\ UNCHANGED <<endpointVars, attach_process, attach_result, sessionVars>>
    /\ UNCHANGED notAttachVars

\* `proc.stdin.write("q\n")`, `proc.stdin.flush()`
Detach ==
    /\ apc = "detach"
    /\ StdinWrite("q\n", "wait")
    /\ UNCHANGED <<endpointVars, sessionVars>>
    /\ UNCHANGED notAttachVars

\* `proc.wait(timeout=10)`, on TimeoutExpired kill and wait; then the message
WaitDetach ==
    /\ apc = "wait"
    /\ \E in_time \in BOOLEAN :
         attach_process' = IF ~Proc.alive THEN attach_process
                           ELSE IF in_time THEN Some([Proc EXCEPT !.alive = FALSE])
                           ELSE Killed
    /\ AttachReturn("Triggered hot {action} via flutter attach against {package_name} ({port_msg}).")
    /\ UNCHANGED <<endpointVars, sessionVars>>
    /\ UNCHANGED notAttachVars

\* the positions at which the attach process exists and the call has not ended
InReadiness == apc \in { "attached", "ready_loop", "ready_poll", "ready_tail",
                         "not_ready", "check_stdin", "write_key" }
InAction == apc \in { "action_loop", "action_tail", "action_poll", "detach", "wait" }

\* the attach process ends on its own
AttachProcessExits ==
    /\ InReadiness \/ InAction
    /\ Proc.alive
    /\ attach_process' = Some([Proc EXCEPT !.alive = FALSE])
    /\ UNCHANGED <<apc, endpointVars, attach_result, sessionVars>>
    /\ UNCHANGED notAttachVars

\* the attach process writes to its log: the tail gains or loses patterns
AttachLogWrites ==
    /\ InReadiness \/ InAction
    /\ Proc.alive
    /\ \E tail \in SUBSET LogPatterns :
         tail # attach_log /\ attach_log' = tail
    /\ UNCHANGED <<apc, endpointVars, attach_process, attach_result, now, deadline,
                   action_deadline, observed>>
    /\ UNCHANGED notAttachVars

\* time passes; the clock is read only against the deadline of the loop that
\* is running, so it is followed up to that deadline
AttachTick ==
    /\ \/ apc \in { "ready_loop", "ready_poll", "ready_tail" } /\ now < deadline
       \/ apc \in { "action_loop", "action_tail", "action_poll" } /\ now < action_deadline
    /\ now' = now + 1
    /\ UNCHANGED <<apc, endpointVars, attach_process, attach_result, deadline,
                   action_deadline, attach_log, observed>>
    /\ UNCHANGED notAttachVars

InitAttach ==
    /\ AttachUnset
    /\ logcat_url \in LogcatUrls
    /\ host_url \in HostUrls
    /\ logcat_port \in LogcatPorts
    /\ Constructed
    /\ FlutterIdle
    /\ ConcIdle
    /\ pc = "idle" /\ environ = None /\ Unset /\ Fresh /\ response = NoResponse

NextAttach ==
    \/ HotReloadVscodeSession
    \/ HotRestartVscodeSession
    \/ SelectEndpoint
    \/ SpawnAttach

SpecAttach == InitAttach /\ [][NextAttach]_vars

\* the attach session, from the Popen of a call that was given a debug_url
InitSession ==
    /\ apc = "attached"
    /\ action \in { "reload", "restart" }
    /\ debug_url = Some(<<"u">>) /\ given_url = debug_url
    /\ debug_port = None /\ given_port = None
    /\ logcat_url = None /\ host_url = None /\ logcat_port = None
    /\ discovery = <<>>
    /\ command = EndpointOptions
    /\ attach_process = Some(Popen(TRUE))
    /\ attach_result = ""
    /\ now = 0 /\ deadline = 0 /\ action_deadline = 0
    /\ attach_log = {}
    /\ observed = NotObserved
    /\ Constructed
    /\ FlutterIdle
    /\ ConcIdle
    /\ pc = "idle" /\ environ = None /\ Unset /\ Fresh /\ response = NoResponse

\* the statements of the session, in the order of the code
SessionStep ==
    \/ SetDeadline
    \/ ReadyLoopTest
    \/ ReadyPoll
    \/ ReadyTail
    \/ NotReady
    \/ CheckStdin
    \/ WriteKey
    \/ ActionLoopTest
    \/ ActionTail
    \/ ActionPoll
    \/ Detach
    \/ WaitDetach

NextSession ==
    \/ SessionStep
    \/ AttachProcessExits
    \/ AttachLogWrites
    \/ AttachTick

SpecSession == InitSession /\ [][NextSession]_vars

\* the interpreter keeps executing the call, and the clock advances
SpecSessionFair ==
    SpecSession /\ WF_vars(SessionStep) /\ WF_vars(AttachTick)

(***************************************************************************)
(* Properties                                                              *)
(***************************************************************************)
InRange(seq, e) == \E i \in 1 .. Len(seq) : seq[i] = e

\* empty or whitespace-only
BlankStr(s) == \A i \in 1 .. Len(s) : s[i] \in { " ", "\t" }
\* absent, empty or whitespace-only
BlankOpt(o) == \A s \in o : BlankStr(s)

InvalidArgs ==
    \/ BlankStr(file_key) \/ BlankStr(node_id)
    \/ scale <= 0 \/ grid_cols <= 0 \/ grid_rows <= 0

NothingProduced ==
    /\ emu_scaled = NoImage /\ emu_aligned = NoImage
    /\ acc = NoAcc /\ grid_cells = <<>> /\ zone_report = <<>> /\ report = NoReport
    /\ files \cap { "emulator_scaled", "emulator_aligned", "heatmap" } = {}

\* C1: a call whose file_key or node_id is empty or whitespace-only, whose scale
\* is <= 0 or whose grid_cols or grid_rows is <= 0 fails with a validation error
\* and has performed no I/O step: no token lookup, no directory creation, no
\* capture, no network request, no file write.
C1_ValidationBeforeIO ==
    (pc \notin { "idle", "validate" } /\ InvalidArgs)
    => /\ pc = "error"
       /\ error \in { MsgFileKey, MsgNodeId, MsgScale, MsgGrid }
       /\ io = <<>>
       /\ files = {}
       /\ token = <<>>
       /\ NothingProduced

C1_Witness ==
    /\ pc = "error"
    /\ file_key = <<"\t", " ">>
    /\ error = MsgFileKey
    /\ io = <<>>

\* C2: with valid arguments, when the figma_token argument and FIGMA_TOKEN are
\* both absent, empty or whitespace-only, the call fails with the "token is
\* required" error and no network request has been made.
C2_TokenRequired ==
    (/\ pc \notin { "idle", "validate", "token" }
     /\ ~InvalidArgs
     /\ BlankOpt(figma_token) /\ BlankOpt(environ))
    => /\ pc = "error"
       /\ error = MsgToken
       /\ ~InRange(io, "http_api")
       /\ ~InRange(io, "http_download")

C2_Witness ==
    /\ pc = "error"
    /\ error = MsgToken
    /\ figma_token = None
    /\ environ = Some(<<" ">>)
    /\ io = <<"getenv">>

\* s is n / d rounded to the nearest integer, a tie going to the even one
IsNearestTiesEven(s, n, d) ==
    /\ 2 * s * d - d <= 2 * n
    /\ 2 * n <= 2 * s * d + d
    /\ (2 * n = 2 * s * d - d \/ 2 * n = 2 * s * d + d) => s % 2 = 0

DimensionChecked ==
    fig_img # NoImage /\ pc \in { "error", "resize", "search", "diff", "report", "done" }

\* C3: with scaledHeight = round(h * W / w), the comparison fails with the
\* dimension error exactly when scaledHeight < H; the message holds both
\* numbers and nothing of the alignment, the diff or the report is produced.
C3_DimensionError ==
    DimensionChecked
    => /\ IsNearestTiesEven(scaled_h, emu_raw_img.height * fig_img.width,
                            emu_raw_img.width)
       /\ (pc = "error") <=> (scaled_h < fig_img.height)
       /\ pc = "error"
            => /\ \E i, j \in 1 .. Len(error.numbers) :
                    /\ i < j
                    /\ error.numbers[i] = scaled_h
                    /\ error.numbers[j] = fig_img.height
               /\ NothingProduced

C3_Witness ==
    /\ DimensionChecked
    /\ pc = "error"
    /\ scaled_h = 2
    /\ 2 * emu_raw_img.height * fig_img.width = 3 * emu_raw_img.width
    /\ fig_img.height > 2

MaxOffset == scaled_h - fig_img.height

SearchOver == pc \in { "diff", "report", "done" }

\* C4: the search scores every offset of [0, scaledHeight - referenceHeight] in
\* increasing order and ends with the smallest offset whose score is the
\* minimum over the range.
C4_OffsetSearch ==
    (pc = "search" \/ SearchOver)
    => /\ Len(scores) = y_offset
       /\ \A o \in 0 .. (y_offset - 1) :
            scores[o + 1] = CoarseMae(fig_img, emu_scaled, o, 2)
       /\ y_offset <= MaxOffset + 1
       /\ SearchOver => y_offset = MaxOffset + 1
       /\ y_offset > 0
            => /\ best_y \in 0 .. (y_offset - 1)
               /\ best_mae = scores[best_y + 1]
               /\ \A o \in 0 .. (y_offset - 1) : RatLeq(best_mae, scores[o + 1])
               /\ \A o \in 0 .. (best_y - 1) : RatLess(best_mae, scores[o + 1])

C4_Witness ==
    /\ pc = "diff"
    /\ best_y > 0
    /\ \E o \in (best_y + 1) .. MaxOffset : RatEq(scores[o + 1], best_mae)

\* C5: in a returned report scaledWidth is the reference width, scaledHeight >=
\* the reference height and 0 <= bestYOffset <= scaledHeight - referenceHeight,
\* so the cropped window lies inside the scaled capture; bestYOffset is 0 when
\* the two heights are equal.
C5_AlignmentBounds ==
    pc = "done"
    => LET al == report.alignment
           W  == report.figma.width
           H  == report.figma.height
       IN  /\ W = fig_img.width /\ H = fig_img.height
           /\ al.scaledWidth = W
           /\ al.scaledHeight >= H
           /\ 0 <= al.bestYOffset
           /\ al.bestYOffset <= al.scaledHeight - H
           /\ al.scaledHeight = H => al.bestYOffset = 0
           /\ emu_scaled.width = al.scaledWidth
           /\ emu_scaled.height = al.scaledHeight
           /\ emu_aligned.width = W /\ emu_aligned.height = H
           /\ \A x \in 0 .. (W - 1), y \in 0 .. (H - 1) :
                Pixel(emu_aligned, x, y) = Pixel(emu_scaled, x, y + al.bestYOffset)

C5_Witness ==
    /\ pc = "done"
    /\ report.alignment.bestYOffset > 0
    /\ report.alignment.bestYOffset
         = report.alignment.scaledHeight - report.figma.height

(***************************************************************************)
(* Properties of the diff pass and of the report                           *)
(***************************************************************************)
Zero == Rat(0, 1)
Hundred == Rat(100, 1)

PixelIndexes == 0 .. (fig_img.width * fig_img.height - 1)

\* every channel of every pixel differs by exactly k
ConstantDelta(k) ==
    \A i \in PixelIndexes, c \in 1 .. 3 :
        Abs(fig_img.px[i][c] - emu_aligned.px[i][c]) = k

\* the delta of the first channel of the first pixel
FirstDelta == Abs(fig_img.px[0][1] - emu_aligned.px[0][1])

\* C6: when the reference and the aligned capture are identical, mae = 0,
\* rmse = 0, similarityPct = 100, the three threshold percentages are 0 and
\* avgDiff = 0 for every grid cell and every zone.
C6_IdenticalImages ==
    (pc = "done" /\ emu_aligned = fig_img)
    => /\ RatEq(metrics.mae, Zero)
       /\ RatEq(metrics.rmseSquared, Zero)
       /\ RatEq(metrics.similarity_pct, Hundred)
       /\ RatEq(report.metrics.mae, Zero)
       /\ RatEq(report.metrics.rmseSquared, Zero)
       /\ RatEq(report.metrics.similarityPct, Hundred)
       /\ RatEq(report.metrics.pxDiffGt10Pct, Zero)
       /\ RatEq(report.metrics.pxDiffGt25Pct, Zero)
       /\ RatEq(report.metrics.pxDiffGt50Pct, Zero)
       /\ Len(grid_cells) = grid_cols * grid_rows
       /\ \A k \in 1 .. Len(grid_cells) : RatEq(grid_cells[k].avgDiff, Zero)
       /\ \A k \in 1 .. Len(report.worstGridCells) :
            RatEq(report.worstGridCells[k].avgDiff, Zero)
       /\ Len(report.zones) = 5
       /\ \A k \in 1 .. Len(report.zones) : RatEq(report.zones[k].avgDiff, Zero)

C6_Witness ==
    /\ pc = "done"
    /\ emu_aligned = fig_img
    /\ fig_img.width = 2 /\ fig_img.height = 2
    /\ grid_cols = 3 /\ grid_rows = 2

\* the global metrics and the zones under a constant delta k
ConstantDeltaMetrics(k) ==
    /\ RatEq(metrics.mae, Rat(k, 1))
    /\ RatEq(report.metrics.mae, Rat(k, 1))
    /\ RatEq(metrics.similarity_pct, Rat(100 * (255 - k), 255))
    \* the reported value is that one rounded to 4 decimals
    /\ LET r == report.metrics.similarityPct
       IN  /\ r[2] = 10000
           /\ 2 * 255 * r[1] - 255 <= 2 * 10000 * 100 * (255 - k)
           /\ 2 * 10000 * 100 * (255 - k) <= 2 * 255 * r[1] + 255
    /\ \A z \in 1 .. Len(report.zones) :
         acc.zone_counts[z] > 0 => RatEq(report.zones[z].avgDiff, Rat(k, 1))
    /\ RatEq(report.metrics.pxDiffGt10Pct, IF k > 10 THEN Hundred ELSE Zero)
    /\ RatEq(report.metrics.pxDiffGt25Pct, IF k > 25 THEN Hundred ELSE Zero)
    /\ RatEq(report.metrics.pxDiffGt50Pct, IF k > 50 THEN Hundred ELSE Zero)

\* C7 as stated: under a constant delta k, mae = k, similarityPct =
\* 100 - (k/255 * 100), EVERY grid cell and every non-empty zone has avgDiff = k,
\* and each threshold percentage is 100 when k exceeds the threshold, else 0.
C7_AsStated ==
    (pc = "done" /\ ConstantDelta(FirstDelta))
    => /\ ConstantDeltaMetrics(FirstDelta)
       /\ \A c \in 1 .. Len(grid_cells) :
            RatEq(grid_cells[c].avgDiff, Rat(FirstDelta, 1))

\* C7 amended: as stated, but avgDiff = k for every grid cell that received at
\* least one pixel (a cell that received none has avgDiff = 0).
C7_ConstantDelta ==
    (pc = "done" /\ ConstantDelta(FirstDelta))
    => /\ ConstantDeltaMetrics(FirstDelta)
       /\ \A c \in 1 .. Len(grid_cells) :
            RatEq(grid_cells[c].avgDiff,
                  IF acc.cell_pixels[c] > 0 THEN Rat(FirstDelta, 1) ELSE Zero)

C7_Witness ==
    /\ pc = "done"
    /\ ConstantDelta(26)
    /\ fig_img.width * fig_img.height = 4
    /\ \E c \in 1 .. Len(grid_cells) : acc.cell_pixels[c] = 0
    /\ \E c \in 1 .. Len(grid_cells) : acc.cell_pixels[c] > 1

PassOver == pc \in { "report", "done" }

\* the pixels the claimed formula sends to cell number idx
ClaimedCellPixels(idx) ==
    { p \in (0 .. (fig_img.width - 1)) \X (0 .. (fig_img.height - 1)) :
        LET col == Min(grid_cols - 1, (p[1] * grid_cols) \div fig_img.width)
            row == Min(grid_rows - 1, (p[2] * grid_rows) \div fig_img.height)
        IN  row * grid_cols + col = idx }

\* C8: the pass counts each pixel (x, y) in exactly one grid cell, the one of
\* index row * grid_cols + col with col = min(grid_cols - 1, floor(x * grid_cols
\* / width)) and row = min(grid_rows - 1, floor(y * grid_rows / height)), which
\* lies in [0, grid_cols * grid_rows); the counts sum to width * height.
C8_GridPartition ==
    PassOver
    => /\ Len(acc.cell_pixels) = grid_cols * grid_rows
       /\ \A idx \in 0 .. (grid_cols * grid_rows - 1) :
            acc.cell_pixels[idx + 1] = Cardinality(ClaimedCellPixels(idx))
       /\ SumOver(acc.cell_pixels, 1 .. Len(acc.cell_pixels))
            = fig_img.width * fig_img.height

C8_Witness ==
    /\ pc = "report"
    /\ fig_img.width = 4 /\ grid_cols = 3 /\ grid_rows = 2
    /\ acc.cell_pixels = <<2, 1, 1, 0, 0, 0>>

\* the five bands, in hundredths of the height
ClaimedBands == << <<0, 24>>, <<24, 47>>, <<47, 72>>, <<72, 87>>, <<87, 100>> >>
ClaimedNames == << "header", "cards", "gap_analysis", "strategy_band", "bottom_nav" >>

InBand(k, y) ==
    /\ ClaimedBands[k][1] * fig_img.height <= 100 * y
    /\ 100 * y < ClaimedBands[k][2] * fig_img.height

\* C9: every row y of [0, height) lies in exactly one of the five bands, its
\* pixels are counted in that zone only, and the zone counts sum to
\* width * height.
C9_ZonePartition ==
    PassOver
    => /\ \A y \in 0 .. (fig_img.height - 1) :
            Cardinality({ k \in 1 .. 5 : InBand(k, y) }) = 1
       /\ Len(acc.zone_counts) = 5
       /\ \A k \in 1 .. 5 :
            /\ Zones[k].name = ClaimedNames[k]
            /\ acc.zone_counts[k]
                 = fig_img.width
                   * Cardinality({ y \in 0 .. (fig_img.height - 1) : InBand(k, y) })
       /\ SumOver(acc.zone_counts, 1 .. 5) = fig_img.width * fig_img.height

C9_Witness ==
    /\ pc = "report"
    /\ fig_img.height = 8
    /\ acc.zone_counts = <<2, 2, 2, 1, 1>>

SameCell(a, b) == a.row = b.row /\ a.col = b.col

\* C10: worstGridCells is sorted by avgDiff in descending order, holds at most
\* min(12, grid_cols * grid_rows) cells, each a distinct (row, col) of the grid,
\* and no cell left out has an avgDiff greater than a cell in the list.
C10_WorstCells ==
    pc = "done"
    => LET worst == report.worstGridCells
       IN  /\ \A i, j \in 1 .. Len(worst) :
                i < j => RatLeq(worst[j].avgDiff, worst[i].avgDiff)
           /\ Len(worst) <= Min(12, grid_cols * grid_rows)
           /\ \A i \in 1 .. Len(worst) :
                /\ worst[i].row \in 0 .. (grid_rows - 1)
                /\ worst[i].col \in 0 .. (grid_cols - 1)
                /\ \E k \in 1 .. Len(grid_cells) : grid_cells[k] = worst[i]
           /\ \A i, j \in 1 .. Len(worst) : SameCell(worst[i], worst[j]) => i = j
           /\ \A k \in 1 .. Len(grid_cells) :
                (\A i \in 1 .. Len(worst) : ~SameCell(worst[i], grid_cells[k]))
                => \A i \in 1 .. Len(worst) :
                     RatLeq(grid_cells[k].avgDiff, worst[i].avgDiff)

C10_Witness ==
    /\ pc = "done"
    /\ grid_cols * grid_rows = 14
    /\ Len(report.worstGridCells) = 12
    /\ RatLess(report.worstGridCells[2].avgDiff, report.worstGridCells[1].avgDiff)
    /\ RatLess(Zero, report.worstGridCells[3].avgDiff)
    /\ report.worstGridCells[1].row = 1

Count(seq, e) == Cardinality({ i \in 1 .. Len(seq) : seq[i] = e })

CaptureErrors == { Msg(o) : o \in CaptureOutcomes \ { "ok" } }
UrlErrors == { UrlError(o) : o \in { r \in UrlOutcomes : r.kind # "ok" } }

\* the last I/O step an invocation that failed with e may have performed
LastStepOf(e) ==
    IF e \in CaptureErrors THEN { "screencap", "pull", "rm" }
    ELSE IF e \in UrlErrors THEN { "http_api" }
    ELSE IF e = Msg("URLError") THEN { "http_download" }
    ELSE IF e = MsgToken THEN { "getenv" }
    ELSE { "write_figma_node" }

\* C13: within one invocation every failure is terminal: the device capture,
\* the image-URL request and the image download are each attempted at most
\* once, the first step that fails ends the invocation with an error, no later
\* pipeline step runs after it, and no report is returned.
C13_FailureIsTerminal ==
    /\ [] /\ Count(io, "screencap") <= 1
          /\ Count(io, "http_api") <= 1
          /\ Count(io, "http_download") <= 1
          /\ (pc = "error") <=> (error # NoError)
          /\ pc = "error" =>
                /\ NothingProduced
                /\ io # <<>> => io[Len(io)] \in LastStepOf(error)
                /\ io = <<>> => error \in { MsgFileKey, MsgNodeId, MsgScale, MsgGrid, MsgToken }
    /\ [][pc # "error"]_vars

C13_Witness ==
    /\ pc = "error"
    /\ error = Msg("URLError")
    /\ Count(io, "screencap") = 1
    /\ Count(io, "http_api") = 1
    /\ io[Len(io)] = "http_download"
\* the I/O steps of capture, fetch, resize, crop and diff pass, in the claimed order
StepOrder ==
    << "screencap", "pull", "rm", "http_api", "http_download", "write_figma_node",
       "write_emulator_scaled", "write_emulator_aligned", "write_heatmap" >>

IsStep(e) == \E i \in 1 .. Len(StepOrder) : StepOrder[i] = e

IsPrefix(a, b) == Len(a) <= Len(b) /\ \A i \in 1 .. Len(a) : a[i] = b[i]

\* C14: within one invocation the steps happen in the order capture, fetch
\* reference, resize, offset search, crop, per-pixel diff pass, report assembly;
\* a step never starts before the previous one has completed, and the report
\* is built only after the diff pass has visited every pixel.
C14_StepOrder ==
    /\ IsPrefix(SelectSeq(io, IsStep), StepOrder)
    /\ scores # <<>> => InRange(io, "write_emulator_scaled")
    /\ InRange(io, "write_emulator_aligned")
         => Len(scores) = scaled_h - fig_img.height + 1
    /\ (acc # NoAcc) <=> InRange(io, "write_heatmap")
    /\ report # NoReport
         => /\ InRange(io, "write_heatmap")
            /\ SumOver(acc.cell_pixels, 1 .. Len(acc.cell_pixels))
                 = fig_img.width * fig_img.height
            /\ pc = "done"

C14_Witness ==
    /\ report # NoReport
    /\ SelectSeq(io, IsStep) = StepOrder
    /\ Len(scores) = 3
    /\ fig_img.width * fig_img.height = 2
\* the step that writes each artifact
WrittenBy(name) ==
    IF name = "emulator_raw" THEN "pull"
    ELSE IF name = "figma_node" THEN "write_figma_node"
    ELSE IF name = "emulator_scaled" THEN "write_emulator_scaled"
    ELSE IF name = "emulator_aligned" THEN "write_emulator_aligned"
    ELSE "write_heatmap"

\* C15: when a report is returned, the output directory exists (it was
\* created if absent) and each of the five artifact paths of the report
\* (emulatorRaw, figmaNode, emulatorScaled, emulatorAligned, heatmap) names a
\* file of that directory that was written during this invocation.
C15_ArtifactsExist ==
    report # NoReport
    => /\ InRange(io, "mkdir")
       /\ report.artifacts = { "emulator_raw", "figma_node", "emulator_scaled",
                               "emulator_aligned", "heatmap" }
       /\ \A name \in report.artifacts :
            /\ name \in files
            /\ Count(io, WrittenBy(name)) = 1
            /\ \E i, j \in 1 .. Len(io) :
                 i < j /\ io[i] = "mkdir" /\ io[j] = WrittenBy(name)

C15_Witness ==
    /\ pc = "done"
    /\ report # NoReport
    /\ Cardinality(files) = 5
    /\ io[Len(io)] = "write_heatmap"
FetchCauses ==
    { "token_missing", "token_rejected", "node_not_found", "transport", "not_an_image" }

\* the cause is present: read off the arguments, the environment, and what
\* the requests met
CauseHolds(c) ==
    IF c = "token_missing"
    THEN /\ pc \notin { "idle", "validate", "token" }
         /\ ~InvalidArgs /\ BlankOpt(figma_token) /\ BlankOpt(environ)
    ELSE IF c = "token_rejected" THEN response = Resp("http_error", 403)
    ELSE IF c = "node_not_found"
    THEN response \in { Resp("http_error", 404), Resp("no_url", 200), Resp("err", 200) }
    ELSE IF c = "transport" THEN response.kind = "url_error"
    ELSE response = Resp("body", 200) /\ figma_body = NoImage /\ pc # "open"

HttpFailure(code) ==
    [ text |-> "Figma API request failed ({exc.code}): {body}", numbers |-> << code >> ]

\* the errors that identify each cause
ErrorsOf(c) ==
    IF c = "token_missing"
    THEN { Msg("Figma token is required. Pass figma_token or set FIGMA_TOKEN env var.") }
    ELSE IF c = "token_rejected" THEN { HttpFailure(403) }
    ELSE IF c = "node_not_found"
    THEN { HttpFailure(404),
           Msg("Figma did not return an image URL: {err_msg}"),
           Msg("Figma did not return an image URL for the requested node.") }
    ELSE IF c = "transport"
    THEN { Msg("Figma API request failed: {exc}"), Msg("URLError") }
    ELSE { Msg("UnidentifiedImageError") }

\* C16: fetching the reference image fails with a distinguishable error for
\* each of the causes missing or invalid auth token, not-found node, network
\* or transport failure, and non-image response: none of them produces a
\* report, and the error raised identifies which cause occurred.
C16_FetchErrors ==
    \A c \in FetchCauses :
      CauseHolds(c)
      => /\ pc = "error"
         /\ error \in ErrorsOf(c)
         /\ \A d \in FetchCauses \ { c } : error \notin ErrorsOf(d)
         /\ report = NoReport

C16_Witness ==
    /\ pc = "error"
    /\ response = Resp("http_error", 403)
    /\ error.numbers = << 403 >>
    /\ InRange(io, "http_api")
    /\ ~InRange(io, "http_download")
\* C11: the artifact paths of a run are unique to it: two invocations that
\* execute concurrently, also with the same output directory, never write to
\* the same artifact file path.
C11_UniquePaths ==
    \A a, b \in written : a.path = b.path => a.by = b.by

\* both invocations read the clock within the same second and one output
\* directory: the second overwrites the first one's raw capture
C11_Collision ==
    /\ output_dir[1] = output_dir[2]
    /\ run_id[1] = run_id[2]
    /\ \E a, b \in written :
         a.path = b.path /\ a.path[3] = "emulator_raw" /\ a.by = 1 /\ b.by = 2
    /\ cpc[1] = "open"
    /\ ReadFile(PathOf(1, "emulator_raw")) = 2

\* C12: two invocations that run concurrently with distinct output
\* directories share no mutable state: in every interleaving of their steps
\* (screencap to the device file, pull, rm included) each reads only data it
\* wrote itself and returns the report it would return when run alone.
C12_Isolated ==
    output_dir[1] # output_dir[2]
    => \A p \in Invocations :
         /\ raw_read[p] \in { NoFile, p }
         /\ \A f \in host_files : f.path[1] = output_dir[p] => f.data = p
         /\ cpc[p] # "error"
         /\ cpc[p] = "done" => returned[p] = p

\* distinct directories: the first invocation pulled the second one's
\* capture and removed the device file, and the second one's pull failed
C12_CrossTalk ==
    /\ output_dir[1] = "out_a" /\ output_dir[2] = "out_b"
    /\ cpc[1] = "done" /\ returned[1] = 2
    /\ cpc[2] = "error"
Listed(name) == InRange(available_devices, name)

\* the outcome the claim gives a construction with exit_on_error = False,
\* `given` telling whether device_name counts as given
ClaimedConstruction(given) ==
    LET ok == /\ adb_installed
              /\ \/ given /\ Listed(Value(device_name))
                 \/ ~given /\ Len(available_devices) = 1
    IN  /\ (init_pc = "constructed") <=> ok
        /\ ok => device_serial = IF given THEN device_name
                                 ELSE Some(available_devices[1])
        /\ ~ok => /\ init_pc = "raised"
                  /\ device_serial = None
                  /\ exit_codes = <<>>
                  /\ init_error =
                       IF ~adb_installed THEN MsgAdb
                       ELSE IF available_devices = <<>> THEN MsgNoDevices
                       ELSE IF given THEN MsgNotFound
                       ELSE MsgMultiple

\* C17: constructing with exit_on_error = False succeeds exactly when adb is
\* installed and either device_name is given and is one of the available
\* devices, or device_name is not given and exactly one device is available;
\* on success the selected serial is device_name in the first case and the
\* sole available device in the second; in every other case a RuntimeError is
\* raised (adb not installed, no devices, named device not found, multiple
\* devices with none named) and no device is selected.  A name is given when
\* it is a non-empty string: None and "" both ask for the automatic selection.
C17_Construction ==
    (init_pc # "new" /\ ~exit_on_error)
    => ClaimedConstruction(device_name \notin { None, Some(<<>>) })

C17_Witness ==
    /\ init_pc = "constructed"
    /\ ~exit_on_error
    /\ available_devices = << <<"a">>, <<"b">> >>
    /\ device_name = Some(<<"b">>)
    /\ device_serial = Some(<<"b">>)

\* C18: constructing with exit_on_error = True reports every initialization
\* failure (adb not installed, no devices, named device not found, multiple
\* devices with none named) by calling sys.exit with code 1, exactly once per
\* failed construction, instead of raising RuntimeError.
C18_ExitOnError ==
    (init_pc # "new" /\ exit_on_error)
    => LET named == device_name \notin { None, Some(<<>>) }
           failure == \/ ~adb_installed
                      \/ available_devices = <<>>
                      \/ named /\ ~Listed(Value(device_name))
                      \/ ~named /\ Len(available_devices) > 1
       IN  /\ failure => /\ init_pc = "exited"
                         /\ exit_codes = << 1 >>
                         /\ init_error = NoError
                         /\ device_serial = None
           /\ ~failure => init_pc = "constructed" /\ exit_codes = <<>>

C18_Witness ==
    /\ init_pc = "exited"
    /\ exit_on_error
    /\ ~adb_installed
    /\ available_devices = <<>>
    /\ exit_codes = << 1 >>
\* this step is a call of method m
IsCall(m) == call_log' = Append(call_log, m)

\* what the claim says of one call of m, whose key is `key`
ClaimedSend(m, key) ==
    IsCall(m)
    => /\ flutter_process' = flutter_process
       /\ flutter_log_path' = flutter_log_path
       /\ flutter_log_handle' = flutter_log_handle
       /\ Len(processes') = Len(processes)
       /\ \A pid \in 1 .. Len(processes) :
            /\ processes'[pid].alive = processes[pid].alive
            /\ pid \notin flutter_process => processes'[pid] = processes[pid]
       /\ \A pid \in flutter_process :
            IF processes[pid].alive /\ processes[pid].has_stdin
            THEN processes'[pid].stdin = processes[pid].stdin \o << key, "flush" >>
            ELSE processes'[pid].stdin = processes[pid].stdin
       /\ (flutter_process = None \/ \E pid \in flutter_process : ~processes[pid].alive)
            => result' = "No active flutter run process. Start one with start_flutter_run first."

\* C19: hot_reload_flutter_run (hot_restart_flutter_run) writes exactly one
\* line "r\n" ("R\n") to the managed process's stdin and then flushes it, when
\* a managed flutter process exists, is still running and has a stdin; when
\* there is no managed process or it has exited, it writes nothing and returns
\* the 'No active flutter run process' message; in both cases the manager's
\* process and log state are left unchanged.
C19_HotReload ==
    [][ /\ ClaimedSend("hot_reload_flutter_run", "r\n")
        /\ ClaimedSend("hot_restart_flutter_run", "R\n") ]_vars

C19_Witness ==
    /\ call_log = << "start_flutter_run", "hot_reload_flutter_run",
                     "hot_restart_flutter_run", "hot_reload_flutter_run" >>
    /\ flutter_process = Some(1)
    /\ processes[1].stdin = << "r\n", "flush", "R\n", "flush" >>
    /\ ~processes[1].alive
    /\ result = "No active flutter run process. Start one with start_flutter_run first."
ExplicitUrl == given_url \notin { None, Some(<<>>) }
ExplicitPort == \E q \in given_port : q > 0

\* the endpoint the claimed precedence chooses
ClaimedEndpoint ==
    IF ExplicitUrl THEN << "--debug-url", Value(given_url) >>
    ELSE IF ExplicitPort THEN << "--debug-port", Str(Value(given_port)) >>
    ELSE IF logcat_url # None THEN << "--debug-url", Value(logcat_url) >>
    ELSE IF host_url # None THEN << "--debug-url", Value(host_url) >>
    ELSE << "--debug-port", Str(Value(logcat_port)) >>

NoEndpoint ==
    /\ ~ExplicitUrl /\ ~ExplicitPort
    /\ logcat_url = None /\ host_url = None /\ logcat_port = None

\* C20: the VM-service endpoint passed to flutter attach is chosen by the
\* precedence: an explicit debug_url (overriding debug_port); else an explicit
\* positive debug_port; else a URL discovered from logcat; else a URL
\* discovered from host processes; else a port discovered from logcat; when
\* none is available an error is raised and no attach process is spawned.
\* Discovery is not run at all when debug_url or a positive debug_port is
\* given, and exactly one of --debug-url / --debug-port is in the command.
C20_EndpointPrecedence ==
    /\ attach_process # None
         => /\ ~NoEndpoint
            /\ command = << ClaimedEndpoint >>
    /\ (NoEndpoint /\ apc \notin { "idle", "select" })
         => /\ apc = "raised"
            /\ attach_process = None
            /\ command = <<>>
    /\ (ExplicitUrl \/ ExplicitPort) => discovery = <<>>
    /\ apc \in { "attached", "returned" } => attach_process # None

C20_Witness ==
    /\ apc = "attached"
    /\ attach_process # None
    /\ given_url = Some(<<>>) /\ given_port = Some(0)
    /\ logcat_url = None /\ host_url = Some(<<"h">>) /\ logcat_port = Some(34)
    /\ discovery = << "_discover_vm_service_debug_url",
                      "_discover_vm_service_debug_url_from_host" >>
    /\ command = << << "--debug-url", <<"h">> >> >>

(***************************************************************************)
(* The attach session                                                      *)
(***************************************************************************)
ActionKey == IF action = "reload" THEN "r\n" ELSE "R\n"

AttachFailures ==
    { "flutter attach exited early with code {proc.returncode}.",
      "flutter attach did not become ready before timeout." }

\* C21: in the attach flow the action key ("r" for reload, "R" for restart)
\* reaches the attach process's stdin only after a pass of the readiness loop
\* polled the process as running and then found a readiness pattern in the
\* log; "q" is written only after the action key; and a call that found the
\* process exited early, or saw no readiness pattern before the deadline,
\* has written no key and returns one of the two failure messages.
C21_KeysAfterReadiness ==
    apc \notin { "idle", "select", "spawn" }
    => LET sent == Proc.stdin
           seen == observed.running /\ observed.connected
       IN  /\ sent \in { <<>>, << ActionKey, "flush" >>,
                         << ActionKey, "flush", "q\n", "flush" >> }
           /\ sent # <<>> => seen
           /\ apc = "returned" /\ ~seen
              => sent = <<>> /\ attach_result \in AttachFailures
           /\ apc = "returned" /\ attach_result \in AttachFailures
              => sent = <<>> /\ ~seen

\* a reload that saw the readiness pattern, sent "r", then "q", and returned
C21_Witness ==
    /\ apc = "returned"
    /\ action = "reload"
    /\ observed.running /\ observed.connected
    /\ Proc.stdin = << "r\n", "flush", "q\n", "flush" >>

\* C27: whenever _run_attach_and_trigger_action has returned after spawning
\* the flutter attach process, that process is no longer running.
C27_AttachProcessGone ==
    apc = "returned" /\ attach_process # None => ~Proc.alive

\* the readiness deadline passed with the process still running and silent:
\* the call returned the timeout message
C27_Witness ==
    /\ apc = "returned"
    /\ attach_result = "flutter attach did not become ready before timeout."
    /\ observed.running
    /\ attach_log = {}
    /\ now >= deadline

\* C28: provided the clock advances, _run_attach_and_trigger_action always
\* returns, whatever the attach process writes to its log.
C28_AlwaysReturns == <>(apc = "returned")

\* the process exited during the action loop and the write of "q" found the
\* pipe broken: the call ended with an exception instead of a message
C28_BrokenPipe ==
    /\ apc = "raised"
    /\ attach_result = "BrokenPipeError"
    /\ Proc.stdin = << ActionKey, "flush" >>
    /\ ~Proc.alive

\* both loops end: the call always ends, by a return or by an exception
SessionEnds == <>(apc \in { "returned", "raised" })


(***************************************************************************)
(* The coarse score                                                        *)
(***************************************************************************)
Evens(n) == { i \in 0 .. (n - 1) : i % 2 = 0 }

\* the sum of |dr| + |dg| + |db| over the pixels of the reference with both
\* coordinates even, against the scaled capture o rows further down
ClaimedTotal(o) ==
    LET at == Evens(fig_img.width) \X Evens(fig_img.height)
    IN  SumOver([s \in at |->
                   LET p == Pixel(fig_img, s[1], s[2])
                       q == Pixel(emu_scaled, s[1], s[2] + o)
                   IN  Abs(p[1] - q[1]) + Abs(p[2] - q[2]) + Abs(p[3] - q[3])], at)

\* 3 * ceil(W/2) * ceil(H/2)
ClaimedSamples ==
    3 * ((fig_img.width + 1) \div 2) * ((fig_img.height + 1) \div 2)

\* C22: the coarse score of every offset o scored so far is the sum of
\* |dr|+|dg|+|db| over the reference pixels (x, y) with x and y even, each
\* against the scaled-capture pixel (x, y + o), divided by
\* 3 * ceil(W/2) * ceil(H/2); that count is positive, so the score is a
\* quotient and not the fallback, and it lies in [0, 255].
C22_CoarseScore ==
    \A o \in 0 .. (Len(scores) - 1) :
      /\ ClaimedSamples > 0
      /\ scores[o + 1] = << ClaimedTotal(o), ClaimedSamples >>
      /\ 0 <= ClaimedTotal(o)
      /\ ClaimedTotal(o) <= 255 * ClaimedSamples

\* a reference two pixels wide whose odd column differs from the capture
\* while its even column does not: the score is 0
C22_Witness ==
    /\ pc = "diff"
    /\ fig_img.width = 2
    /\ scores[1] = << 0, ClaimedSamples >>
    /\ Pixel(fig_img, 1, 0) # Pixel(emu_scaled, 1, 0)


(***************************************************************************)
(* Cells and zones that receive no pixel                                   *)
(***************************************************************************)
\* the rows of the image that lie in band k
RowsOfBand(k) == { y \in 0 .. (fig_img.height - 1) : InBand(k, y) }

\* C23: when grid_cols exceeds the width or grid_rows exceeds the height, every
\* grid cell that receives no pixel is reported with avgDiff = 0 and
\* similarityPct = 100, and no average is a division by zero; a zone that
\* receives no pixel row is reported with avgDiff = 0, and the report lists all
\* five zones.
C23_EmptyCellsAndZones ==
    pc = "done"
    => /\ Len(grid_cells) = grid_cols * grid_rows
       /\ \A k \in 1 .. Len(grid_cells) :
            /\ grid_cells[k].avgDiff[2] # 0
            /\ grid_cells[k].similarityPct[2] # 0
            /\ ClaimedCellPixels(k - 1) = {}
               => /\ RatEq(grid_cells[k].avgDiff, Zero)
                  /\ RatEq(grid_cells[k].similarityPct, Hundred)
       /\ Len(report.zones) = 5
       /\ \A k \in 1 .. 5 :
            /\ report.zones[k].name = ClaimedNames[k]
            /\ report.zones[k].avgDiff[2] # 0
            /\ report.zones[k].similarityPct[2] # 0
            /\ RowsOfBand(k) = {} => RatEq(report.zones[k].avgDiff, Zero)

\* a grid wider than the image, with an empty cell next to a cell that
\* differs, and an image too short for one of its zones
C23_Witness ==
    /\ pc = "done"
    /\ grid_cols > fig_img.width
    /\ \E k \in 1 .. Len(grid_cells) : ClaimedCellPixels(k - 1) = {}
    /\ \E k \in 1 .. Len(grid_cells) : RatLess(Zero, grid_cells[k].avgDiff)
    /\ \E k \in 1 .. 5 : RowsOfBand(k) = {}
    /\ \E k \in 1 .. 5 : RatLess(Zero, report.zones[k].avgDiff)


(***************************************************************************)
(* start_flutter_run and stop_flutter_run                                  *)
(***************************************************************************)
Running(pid) == processes[pid].alive

\* what the claim says of one call of stop_flutter_run
ClaimedStop ==
    IsCall("stop_flutter_run")
    => /\ flutter_process' = None
       /\ flutter_log_handle' = "None"
       /\ Len(processes') = Len(processes)
       /\ \A pid \in 1 .. Len(processes) :
            pid \notin flutter_process => processes'[pid] = processes[pid]
       /\ \A pid \in flutter_process :
            IF Running(pid)
            THEN /\ processes'[pid].stdin = processes[pid].stdin \o << "q\n", "flush" >>
                 /\ ~processes'[pid].alive
                 /\ result' = IF processes'[pid].killed
                              THEN "Force-killed flutter run process (pid: {pid})."
                              ELSE "Stopped flutter run gracefully (pid: {pid})."
            ELSE /\ processes'[pid] = processes[pid]
                 /\ result' = "No active flutter run process."
       /\ flutter_process = None => result' = "No active flutter run process."

ClaimedStart ==
    IsCall("start_flutter_run")
    => IF \E pid \in flutter_process : Running(pid)
       THEN /\ processes' = processes
            /\ flutter_process' = flutter_process
            /\ flutter_log_path' = flutter_log_path
            /\ flutter_log_handle' = flutter_log_handle
            /\ result' = "Flutter run already active (pid: {pid})."
       ELSE Len(processes') \in { Len(processes), Len(processes) + 1 }

\* C25: at most one flutter process spawned by the manager is running at any
\* time; start_flutter_run spawns only when the manager holds no process or
\* the held one has exited, and with a managed process still running it
\* returns the 'already active' message, spawns nothing, does not reopen the
\* log and leaves the manager's state as it was.
C25_AtMostOneProcess ==
    /\ [](Cardinality({ pid \in 1 .. Len(processes) : Running(pid) }) <= 1)
    /\ [][ClaimedStart]_vars

\* a second process started after the first was stopped, and a further start
\* refused while it runs
C25_Witness ==
    /\ call_log = << "start_flutter_run", "stop_flutter_run", "start_flutter_run",
                     "start_flutter_run" >>
    /\ Len(processes) = 2
    /\ ~Running(1) /\ Running(2)
    /\ flutter_process = Some(2)
    /\ result = "Flutter run already active (pid: {pid})."

\* C26: after any sequence of start_flutter_run and stop_flutter_run calls,
\* failed ones included, the manager holds no open log file handle whenever
\* it holds no flutter process.
C26_NoHandleWithoutProcess ==
    flutter_process = None => flutter_log_handle = "None"

\* one start_flutter_run whose Popen raised: the log is open, no process is held
C26_HandleLeak ==
    /\ call_log = << "start_flutter_run" >>
    /\ result = "OSError"
    /\ processes = <<>>
    /\ flutter_process = None
    /\ flutter_log_handle = "open"


(***************************************************************************)
(* Threshold percentages and similarities                                  *)
(***************************************************************************)
\* the pixels whose three channel deltas have a mean strictly above t
PixelsAbove(t) ==
    { i \in PixelIndexes :
        LET p == fig_img.px[i]
            q == emu_aligned.px[i]
        IN  Abs(p[1] - q[1]) + Abs(p[2] - q[2]) + Abs(p[3] - q[3]) > 3 * t }

\* r is 100 * n / total rounded to four decimals
IsPercentOf(r, n, total) ==
    /\ r[2] = 10000
    /\ 2 * Abs(total * r[1] - 1000000 * n) <= total

InPercentRange(r) == RatLeq(Zero, r) /\ RatLeq(r, Hundred)

\* C29: in every report 0 <= pxDiffGt50Pct <= pxDiffGt25Pct <= pxDiffGt10Pct
\* <= 100, each being the share of the pixels whose mean channel delta is
\* strictly greater than its threshold; similarityPct and the similarityPct of
\* every zone and of every grid cell lie in [0, 100].
C29_PercentagesOrdered ==
    pc = "done"
    => LET m == report.metrics
           total == fig_img.width * fig_img.height
       IN  /\ acc.diff_gt_10 = Cardinality(PixelsAbove(10))
           /\ acc.diff_gt_25 = Cardinality(PixelsAbove(25))
           /\ acc.diff_gt_50 = Cardinality(PixelsAbove(50))
           /\ IsPercentOf(m.pxDiffGt10Pct, Cardinality(PixelsAbove(10)), total)
           /\ IsPercentOf(m.pxDiffGt25Pct, Cardinality(PixelsAbove(25)), total)
           /\ IsPercentOf(m.pxDiffGt50Pct, Cardinality(PixelsAbove(50)), total)
           \* the three are in ten-thousandths
           /\ 0 <= m.pxDiffGt50Pct[1]
           /\ m.pxDiffGt50Pct[1] <= m.pxDiffGt25Pct[1]
           /\ m.pxDiffGt25Pct[1] <= m.pxDiffGt10Pct[1]
           /\ m.pxDiffGt10Pct[1] <= 100 * 10000
           /\ InPercentRange(m.similarityPct)
           /\ \A k \in 1 .. Len(report.zones) :
                InPercentRange(report.zones[k].similarityPct)
           /\ \A k \in 1 .. Len(grid_cells) :
                InPercentRange(grid_cells[k].similarityPct)
           /\ \A k \in 1 .. Len(report.worstGridCells) :
                InPercentRange(report.worstGridCells[k].similarityPct)

\* pixels below every threshold, between 25 and 50, and above 50 in one image
C29_Witness ==
    /\ pc = "done"
    /\ 0 < report.metrics.pxDiffGt50Pct[1]
    /\ report.metrics.pxDiffGt50Pct[1] < report.metrics.pxDiffGt25Pct[1]
    /\ report.metrics.pxDiffGt10Pct[1] < 100 * 10000
    /\ \E i \in PixelIndexes : fig_img.px[i] # emu_aligned.px[i] /\ i \notin PixelsAbove(10)


(***************************************************************************)
(* What a failed comparison leaves on disk                                 *)
(***************************************************************************)
DimensionFailure ==
    /\ pc = "error"
    /\ error.text
         = "Scaled emulator image is shorter than Figma image ({scaled_h} < {target_h})."

EarlyFailure ==
    /\ pc = "error"
    /\ error.text \in { "file_key is required.", "node_id is required.",
                        "scale must be > 0.", "grid_cols and grid_rows must be > 0.",
                        "Figma token is required. Pass figma_token or set FIGMA_TOKEN env var." }

Writes ==
    { "pull", "write_figma_node", "write_emulator_scaled", "write_emulator_aligned",
      "write_heatmap" }

\* C30: a comparison that fails with the dimension error has written the raw
\* capture and the reference image to the output directory and none of the
\* scaled, aligned and heatmap images; one that fails in input validation or
\* token resolution has created no directory and written no file.
C30_FailureArtifacts ==
    /\ DimensionFailure
       => /\ InRange(io, "mkdir")
          /\ InRange(io, "pull") /\ InRange(io, "write_figma_node")
          /\ files = { "emulator_raw", "figma_node" }
          /\ \A w \in { "write_emulator_scaled", "write_emulator_aligned",
                        "write_heatmap" } : ~InRange(io, w)
    /\ EarlyFailure
       => /\ ~InRange(io, "mkdir")
          /\ \A w \in Writes : ~InRange(io, w)
          /\ files = {}

\* a capture that scales to fewer rows than the reference has
C30_Witness ==
    /\ DimensionFailure
    /\ error.numbers[1] < error.numbers[2]
    /\ files = { "emulator_raw", "figma_node" }

====
